---- MODULE Spec2Model ----
(***************************************************************************)
(* Model of app/services/voice_service.py (VoiceProcessingService): the    *)
(* transcript-to-draft extraction engine.  Text is a TLA+ string, indexed  *)
(* from 1; the regular expressions of the source are transcribed as        *)
(* syntax trees and matched by a backtracking matcher that enumerates the  *)
(* matches in the priority order of Python's re module.  Money is kept in  *)
(* hundredths (a float with two decimals), confidence in hundredths.       *)
(***************************************************************************)
EXTENDS Integers, Sequences, FiniteSets, TLC

\* The frame of a second call of process_transcript on the same engine (the
\* module-level voice_service of the router serves every request),
\* suspended while the call described by the variables below runs.
VARIABLE other

\* The database behind the routers (app/core/database.py): the tables the
\* service-record and vehicle-access handlers read and write, the clock, the
\* response of the last request, and the requests that are in progress.
VARIABLE db

(***************************************************************************)
(* str helpers (Python built-ins used by the source)                       *)
(***************************************************************************)
Ch(s, i) == SubSeq(s, i, i)

DIGITS == {"0", "1", "2", "3", "4", "5", "6", "7", "8", "9"}
SPACES == {" ", "\t", "\n", "\r", "\f"}
UPPERS == "ABCDEFGHIJKLMNOPQRSTUVWXYZ"
LOWERS == "abcdefghijklmnopqrstuvwxyz"
WORDCH == {Ch(LOWERS, i) : i \in 1..26} \cup {Ch(UPPERS, i) : i \in 1..26}
             \cup DIGITS \cup {"_"}

Min(a, b) == IF a < b THEN a ELSE b
Max(a, b) == IF a > b THEN a ELSE b
MinOf(I) == CHOOSE i \in I : \A j \in I : i <= j
MaxOf(I) == CHOOSE i \in I : \A j \in I : i >= j

\* str.lower(), one character and a whole string (split in quarters to keep
\* the evaluation shallow)
LowerCh(c) ==
    LET u == {i \in 1..26 : Ch(UPPERS, i) = c}
    IN  IF u = {} THEN c ELSE Ch(LOWERS, CHOOSE i \in u : TRUE)
\* s[a-1:b], cut to the string
Piece(s, a, b) == SubSeq(s, Min(a, Len(s) + 1), Min(b, Len(s)))
RECURSIVE Lower(_)
Lower(s) ==
    IF Len(s) = 0 THEN ""
    ELSE IF Len(s) = 1 THEN LowerCh(s)
    ELSE LET q == (Len(s) + 3) \div 4
         IN  Lower(Piece(s, 1, q)) \o Lower(Piece(s, q + 1, 2 * q))
                \o Lower(Piece(s, 2 * q + 1, 3 * q))
                \o Lower(Piece(s, 3 * q + 1, Len(s)))

\* sub in s
Contains(s, sub) ==
    \E i \in 1..(Len(s) - Len(sub) + 1) : SubSeq(s, i, i + Len(sub) - 1) = sub

\* s.replace(old, new): leftmost, non-overlapping occurrences
RECURSIVE Replace(_, _, _)
Replace(s, old, new) ==
    LET occ == {i \in 1..(Len(s) - Len(old) + 1) :
                    SubSeq(s, i, i + Len(old) - 1) = old}
    IN  IF occ = {} THEN s
        ELSE LET i == MinOf(occ)
             IN  SubSeq(s, 1, i - 1) \o new
                    \o Replace(SubSeq(s, i + Len(old), Len(s)), old, new)

\* s.strip()
Strip(s) ==
    LET ink == {i \in 1..Len(s) : Ch(s, i) \notin SPACES}
    IN  IF ink = {} THEN "" ELSE SubSeq(s, MinOf(ink), MaxOf(ink))

\* re.sub(r'\s+', ' ', s): every run of whitespace becomes one blank
RECURSIVE CollapseSpaces(_, _, _)
CollapseSpaces(s, lo, hi) ==
    IF lo > hi THEN ""
    ELSE IF lo = hi
         THEN IF Ch(s, lo) \notin SPACES THEN Ch(s, lo)
              ELSE IF lo > 1 /\ Ch(s, lo - 1) \in SPACES THEN "" ELSE " "
    ELSE LET q == (hi - lo + 4) \div 4
         IN  CollapseSpaces(s, lo, lo + q - 1)
                \o CollapseSpaces(s, lo + q, Min(lo + 2 * q - 1, hi))
                \o CollapseSpaces(s, lo + 2 * q, Min(lo + 3 * q - 1, hi))
                \o CollapseSpaces(s, lo + 3 * q, hi)

\* len(s.split()): the number of maximal runs of non-whitespace
WordCount(s) ==
    Cardinality({i \in 1..Len(s) :
        /\ Ch(s, i) \notin SPACES
        /\ (i = 1 \/ Ch(s, i - 1) \in SPACES)})

\* int(s) for a string of decimal digits (split in halves)
DigitVal(c) == CHOOSE d \in 0..9 : Ch("0123456789", d + 1) = c
RECURSIVE ToInt(_)
ToInt(s) ==
    IF s = "" THEN 0
    ELSE IF Len(s) = 1 THEN DigitVal(s)
    ELSE ToInt(SubSeq(s, 1, Len(s) \div 2)) * 10 ^ (Len(s) - Len(s) \div 2)
            + ToInt(SubSeq(s, Len(s) \div 2 + 1, Len(s)))

\* float(s) for "ddd" or "ddd.dd", in hundredths
ToCents(s) ==
    LET dots == {i \in 1..Len(s) : Ch(s, i) = "."}
    IN  IF dots = {} THEN 100 * ToInt(s)
        ELSE LET d == CHOOSE i \in dots : TRUE
                 frac == SubSeq(s, d + 1, Len(s))
                 f2 == SubSeq(frac \o "00", 1, 2)
             IN  100 * ToInt(SubSeq(s, 1, d - 1)) + ToInt(f2)

(***************************************************************************)
(* Regular expressions: syntax trees and Python's matching order           *)
(***************************************************************************)
Lit(s)    == [t |-> "lit", s |-> s]
In(S)     == [t |-> "set", S |-> S, neg |-> FALSE]
NotIn(S)  == [t |-> "set", S |-> S, neg |-> TRUE]
Cat(ns)   == [t |-> "cat", ns |-> ns]
Alt(ns)   == [t |-> "alt", ns |-> ns]
\* n{lo,hi}; unb stands for no upper limit (hi is then unused)
Rep(n, lo, hi, unb, greedy) ==
    [t |-> "rep", n |-> n, lo |-> lo, hi |-> hi, unb |-> unb, greedy |-> greedy]
Grp(n)    == [t |-> "grp", n |-> n]
WB        == [t |-> "wb"]
EOS       == [t |-> "eos"]

Opt(n)    == Rep(n, 0, 1, FALSE, TRUE)   \* n?
Star(n)   == Rep(n, 0, 0, TRUE, TRUE)    \* n*
Plus(n)   == Rep(n, 1, 1, TRUE, TRUE)    \* n+
LazyStar(n) == Rep(n, 0, 0, TRUE, FALSE) \* n*?
LazyPlus(n) == Rep(n, 1, 1, TRUE, FALSE) \* n+?
Between(n, lo, hi) == Rep(n, lo, hi, FALSE, TRUE)  \* n{lo,hi}
LOWERSET  == {Ch(LOWERS, i) : i \in 1..26}   \* [a-z]
D         == In(DIGITS)                  \* \d
S         == In(SPACES)                  \* \s
Dot       == NotIn({"\n"})               \* .
NotDot    == NotIn({"."})                \* [^.]
Ss        == Star(S)                     \* \s*
Sp        == Plus(S)                     \* \s+
Num       == Cat(<<Plus(D), Opt(Cat(<<Lit("."), Plus(D)>>))>>)  \* \d+(?:\.\d+)?
RsD       == In({"r", "s", "$"})         \* [Rs$] under re.IGNORECASE, lower-cased text

IsWordAt(txt, i) == i >= 1 /\ i <= Len(txt) /\ Ch(txt, i) \in WORDCH

\* A match state: e is the index of the next unread character, g the span
\* <<first, last + 1>> of group 1, or <<>> while group 1 has not taken part.
\* M yields every way n matches from st, most preferred first.
\* A repetition of a one-character class is enumerated in closed form.
\* RunEnd is the index after the longest run of class members from e.
RunEnd(set, txt, e) ==
    MinOf({i \in e..(Len(txt) + 1) :
            i = Len(txt) + 1 \/ (Ch(txt, i) \in set.S) = set.neg})
\* the states after lo..top repetitions, in the order of preference
RepSpans(st, lo, top, greedy) ==
    [j \in 1..Max(0, top - lo + 1) |->
        [st EXCEPT !.e = @ + (IF greedy THEN top + 1 - j ELSE lo + j - 1)]]
RepTop(n, run) == IF n.unb THEN run ELSE Min(run, n.hi)
RepSet(n, txt, st) ==
    RepSpans(st, n.lo, RepTop(n, RunEnd(n.n, txt, st.e) - st.e), n.greedy)

\* one more repetition before stopping (greedy), or stopping first (lazy)
InOrder(greedy, more, stop) == IF greedy THEN more \o stop ELSE stop \o more
\* the states r of a group's content, with the group's span recorded
InGroup(r, first) ==
    [i \in 1..Len(r) |-> [r[i] EXCEPT !.g = <<first, r[i].e>>]]

RECURSIVE M(_, _, _)
RECURSIVE MAll(_, _, _, _, _)
RECURSIVE MCat(_, _, _, _, _)
RECURSIVE MAlt(_, _, _, _)
RECURSIVE MRep(_, _, _, _)
RECURSIVE MRepAll(_, _, _, _, _)
M(n, txt, st) ==
    CASE n.t = "lit" ->
            IF /\ st.e + Len(n.s) - 1 <= Len(txt)
               /\ SubSeq(txt, st.e, st.e + Len(n.s) - 1) = n.s
            THEN <<[st EXCEPT !.e = @ + Len(n.s)]>> ELSE <<>>
      [] n.t = "set" ->
            IF st.e <= Len(txt) /\ ((Ch(txt, st.e) \in n.S) # n.neg)
            THEN <<[st EXCEPT !.e = @ + 1]>> ELSE <<>>
      [] n.t = "rep" /\ n.n.t = "set" -> RepSet(n, txt, st)
      [] n.t = "cat" -> MCat(n.ns, 1, Len(n.ns), txt, <<st>>)
      [] n.t = "alt" -> MAlt(n.ns, 1, txt, st)
      [] n.t = "rep" /\ ~n.unb /\ n.hi = 1 /\ n.lo = 0 ->
            \* x? : one occurrence of x, or none
            InOrder(n.greedy, M(n.n, txt, st), <<st>>)
      [] n.t = "rep" -> MRep(n, txt, st, 0)
      [] n.t = "grp" ->
            InGroup(M(n.n, txt, st), st.e)
      [] n.t = "wb" ->
            IF IsWordAt(txt, st.e - 1) # IsWordAt(txt, st.e)
            THEN <<st>> ELSE <<>>
      [] n.t = "eos" -> IF st.e = Len(txt) + 1 THEN <<st>> ELSE <<>>
MAll(n, txt, sts, lo, hi) ==
    IF lo > hi THEN <<>>
    ELSE IF lo = hi THEN M(n, txt, sts[lo])
    ELSE LET h == (lo + hi) \div 2
         IN  MAll(n, txt, sts, lo, h) \o MAll(n, txt, sts, h + 1, hi)
MCat(ns, lo, hi, txt, sts) ==
    IF sts = <<>> \/ lo > hi THEN sts
    ELSE IF lo = hi THEN MAll(ns[lo], txt, sts, 1, Len(sts))
    ELSE MCat(ns, (lo + hi) \div 2 + 1, hi, txt,
              MCat(ns, lo, (lo + hi) \div 2, txt, sts))
MAlt(ns, k, txt, st) ==
    IF k > Len(ns) THEN <<>>
    ELSE M(ns[k], txt, st) \o MAlt(ns, k + 1, txt, st)
MRepAll(n, txt, sts, i, cnt) ==
    IF i > Len(sts) THEN <<>>
    ELSE MRep(n, txt, sts[i], cnt) \o MRepAll(n, txt, sts, i + 1, cnt)
MRep(n, txt, st, cnt) ==
    InOrder(n.greedy,
            MRepAll(n, txt,
                    IF ~n.unb /\ cnt >= n.hi THEN <<>>
                    ELSE SelectSeq(M(n.n, txt, st), LAMBDA r : r.e > st.e),
                    1, cnt + 1),
            IF cnt >= n.lo THEN <<st>> ELSE <<>>)

NoMatch == [s |-> 0, e |-> 0, g |-> <<>>]

\* re.search(n, txt) restricted to starts >= from: the leftmost match, and
\* among the matches from that start the most preferred one
MatchesAt(n, txt, i) == M(n, txt, [e |-> i, g |-> <<>>])
AsMatch(i, r) == [s |-> i, e |-> r.e, g |-> r.g]
MatchAt(n, txt, i) == AsMatch(i, MatchesAt(n, txt, i)[1])
FirstOf(n, txt, starts) ==
    IF starts = {} THEN NoMatch ELSE MatchAt(n, txt, MinOf(starts))
SearchFrom(n, txt, from) ==
    FirstOf(n, txt, {i \in from..(Len(txt) + 1) : MatchesAt(n, txt, i) # <<>>})
Search(n, txt) == SearchFrom(n, txt, 1)
\* bool(re.search(n, txt))
Found(n, txt) == \E i \in 1..(Len(txt) + 1) : MatchesAt(n, txt, i) # <<>>

\* match.group(1): "" stands for None as well (the source only tests truth)
Group1(txt, m) == IF m.g = <<>> THEN "" ELSE SubSeq(txt, m.g[1], m.g[2] - 1)
\* match.group(): the whole match
Group0(txt, m) == SubSeq(txt, m.s, m.e - 1)

\* whether the pattern has a group 1 at all: match.group(1) raises IndexError
\* ("no such group") on a pattern without one
RECURSIVE HasGroup(_)
HasGroup(n) ==
    CASE n.t = "grp" -> TRUE
      [] n.t \in {"cat", "alt"} -> \E k \in 1..Len(n.ns) : HasGroup(n.ns[k])
      [] n.t = "rep" -> HasGroup(n.n)
      [] OTHER -> FALSE

\* pattern.findall(txt) for a pattern with one group: group 1 of the
\* successive non-overlapping matches
RECURSIVE FindAllFrom(_, _, _)
RECURSIVE FindAllAfter(_, _, _)
FindAllFrom(n, txt, from) == FindAllAfter(n, txt, SearchFrom(n, txt, from))
FindAllAfter(n, txt, m) ==
    IF m.s = 0 THEN <<>>
    ELSE <<Group1(txt, m)>>
            \o FindAllFrom(n, txt, IF m.e > m.s THEN m.e ELSE m.e + 1)
FindAll(n, txt) == FindAllFrom(n, txt, 1)

\* re.split(n, txt) for a pattern without groups that matches no empty string
RECURSIVE SplitFrom(_, _, _)
RECURSIVE SplitAt(_, _, _, _)
SplitFrom(n, txt, from) == SplitAt(n, txt, from, SearchFrom(n, txt, from))
SplitAt(n, txt, from, m) ==
    IF m.s = 0 THEN <<SubSeq(txt, from, Len(txt))>>
    ELSE <<SubSeq(txt, from, m.s - 1)>> \o SplitFrom(n, txt, m.e)
Split(n, txt) == SplitFrom(n, txt, 1)

\* the concatenation of a sequence of sequences (halved, to stay shallow)
RECURSIVE Flatten(_, _, _)
Flatten(ss, lo, hi) ==
    IF lo > hi THEN <<>>
    ELSE IF lo = hi THEN ss[lo]
    ELSE LET h == (lo + hi) \div 2
         IN  Flatten(ss, lo, h) \o Flatten(ss, h + 1, hi)
Concat(ss) == Flatten(ss, 1, Len(ss))

\* A for loop that returns from its first iteration that has a result:
\* steps[k] is Some(result) or None; OrElse supplies what follows the loop
FirstSome(steps) ==
    IF \A k \in 1..Len(steps) : steps[k] = <<>> THEN <<>>
    ELSE steps[MinOf({k \in 1..Len(steps) : steps[k] # <<>>})]
OrElse(r, rest) == IF r # <<>> THEN r[1] ELSE rest

\* Optional[...]: None, or one value
None == <<>>
Some(v) == <<v>>

(***************************************************************************)
(* Reference catalogs (class attributes) and the patterns compiled by      *)
(* __init__.  Every pattern keeps its source text (src) beside its tree;   *)
(* the trees are written for lower-cased text, which is what every caller  *)
(* passes (re.IGNORECASE then adds nothing).  PART_IDS and                 *)
(* SERVICE_TYPE_IDS give the iteration order of the dictionaries.          *)
(***************************************************************************)
PART_IDS ==
    <<"engine oil", "oil filter", "air filter", "fuel filter",
      "coolant", "brake pad", "brake disc", "brake fluid",
      "battery", "spark plug", "alternator", "tire",
      "wheel alignment", "wheel balancing", "ac gas", "timing belt",
      "wiper blade">>

PARTS_DICT ==
       "engine oil" :> [
        name |-> "Engine Oil",
        keywords |-> <<"engine oil", "motor oil", "oil change", "changed oil", "oil replaced", "oil", "lubricant">>,
        patterns |-> <<
            [src |-> "engine\\s+oil",
             re |-> Cat(<<Lit("engine"), Sp, Lit("oil")>>)],
            [src |-> "motor\\s+oil",
             re |-> Cat(<<Lit("motor"), Sp, Lit("oil")>>)],
            [src |-> "oil\\s+change",
             re |-> Cat(<<Lit("oil"), Sp, Lit("change")>>)],
            [src |-> "changed\\s+oil",
             re |-> Cat(<<Lit("changed"), Sp, Lit("oil")>>)],
            [src |-> "replaced\\s+oil",
             re |-> Cat(<<Lit("replaced"), Sp, Lit("oil")>>)]>>,
        category |-> "Fluid",
        avg_price |-> 500,
        common_with |-> <<"oil filter">>]
    @@ "oil filter" :> [
        name |-> "Oil Filter",
        keywords |-> <<"oil filter", "filter change", "replaced filter", "filter", "oil element">>,
        patterns |-> <<
            [src |-> "oil\\s+filter",
             re |-> Cat(<<Lit("oil"), Sp, Lit("filter")>>)],
            [src |-> "filter\\s+change",
             re |-> Cat(<<Lit("filter"), Sp, Lit("change")>>)],
            [src |-> "replaced\\s+filter",
             re |-> Cat(<<Lit("replaced"), Sp, Lit("filter")>>)]>>,
        category |-> "Filter",
        avg_price |-> 200,
        common_with |-> <<"engine oil", "air filter">>]
    @@ "air filter" :> [
        name |-> "Air Filter",
        keywords |-> <<"air filter", "air cleaner", "cabin filter", "air filter change", "ac filter">>,
        patterns |-> <<
            [src |-> "air\\s+filter",
             re |-> Cat(<<Lit("air"), Sp, Lit("filter")>>)],
            [src |-> "cabin\\s+filter",
             re |-> Cat(<<Lit("cabin"), Sp, Lit("filter")>>)],
            [src |-> "ac\\s+filter",
             re |-> Cat(<<Lit("ac"), Sp, Lit("filter")>>)]>>,
        category |-> "Filter",
        avg_price |-> 300,
        common_with |-> <<"engine oil", "oil filter">>]
    @@ "fuel filter" :> [
        name |-> "Fuel Filter",
        keywords |-> <<"fuel filter", "petrol filter", "diesel filter">>,
        patterns |-> <<
            [src |-> "fuel\\s+filter",
             re |-> Cat(<<Lit("fuel"), Sp, Lit("filter")>>)]>>,
        category |-> "Filter",
        avg_price |-> 400,
        common_with |-> <<>>]
    @@ "coolant" :> [
        name |-> "Coolant",
        keywords |-> <<"coolant", "anti freeze", "radiator coolant", "cooling fluid">>,
        patterns |-> <<
            [src |-> "coolant",
             re |-> Lit("coolant")],
            [src |-> "anti\\s*freeze",
             re |-> Cat(<<Lit("anti"), Ss, Lit("freeze")>>)]>>,
        category |-> "Fluid",
        avg_price |-> 350,
        common_with |-> <<>>]
    @@ "brake pad" :> [
        name |-> "Brake Pads",
        keywords |-> <<"brake pad", "brake pads", "pads", "front pads", "rear pads", "disc pads">>,
        patterns |-> <<
            [src |-> "brake\\s+pads?",
             re |-> Cat(<<Lit("brake"), Sp, Lit("pad"), Opt(Lit("s"))>>)],
            [src |-> "front\\s+pads",
             re |-> Cat(<<Lit("front"), Sp, Lit("pads")>>)],
            [src |-> "rear\\s+pads",
             re |-> Cat(<<Lit("rear"), Sp, Lit("pads")>>)],
            [src |-> "disc\\s+pads",
             re |-> Cat(<<Lit("disc"), Sp, Lit("pads")>>)]>>,
        category |-> "Brakes",
        avg_price |-> 800,
        common_with |-> <<"brake disc", "brake fluid">>]
    @@ "brake disc" :> [
        name |-> "Brake Disc",
        keywords |-> <<"brake disc", "brake disk", "disc brake", "rotor", "brake rotors", "discs">>,
        patterns |-> <<
            [src |-> "brake\\s+(?:disc|disk|rotor)s?",
             re |-> Cat(<<Lit("brake"), Sp, Alt(<<Lit("disc"), Lit("disk"), Lit("rotor")>>), Opt(Lit("s"))>>)],
            [src |-> "discs?\\s+brake",
             re |-> Cat(<<Lit("disc"), Opt(Lit("s")), Sp, Lit("brake")>>)],
            [src |-> "rotors?\\s+brake",
             re |-> Cat(<<Lit("rotor"), Opt(Lit("s")), Sp, Lit("brake")>>)]>>,
        category |-> "Brakes",
        avg_price |-> 1500,
        common_with |-> <<>>]
    @@ "brake fluid" :> [
        name |-> "Brake Fluid",
        keywords |-> <<"brake fluid", "brake oil", "hydraulic fluid", "dot fluid">>,
        patterns |-> <<
            [src |-> "brake\\s+fluid",
             re |-> Cat(<<Lit("brake"), Sp, Lit("fluid")>>)],
            [src |-> "brake\\s+oil",
             re |-> Cat(<<Lit("brake"), Sp, Lit("oil")>>)]>>,
        category |-> "Fluid",
        avg_price |-> 250,
        common_with |-> <<"brake pad", "brake disc">>]
    @@ "battery" :> [
        name |-> "Battery",
        keywords |-> <<"battery", "accumulator", "car battery", "new battery">>,
        patterns |-> <<
            [src |-> "battery",
             re |-> Lit("battery")],
            [src |-> "accumulator",
             re |-> Lit("accumulator")]>>,
        category |-> "Electrical",
        avg_price |-> 2500,
        common_with |-> <<>>]
    @@ "spark plug" :> [
        name |-> "Spark Plug",
        keywords |-> <<"spark plug", "sparkplug", "ignition plug", "spark plugs">>,
        patterns |-> <<
            [src |-> "spark\\s*plugs?",
             re |-> Cat(<<Lit("spark"), Ss, Lit("plug"), Opt(Lit("s"))>>)],
            [src |-> "ignition\\s+plugs?",
             re |-> Cat(<<Lit("ignition"), Sp, Lit("plug"), Opt(Lit("s"))>>)]>>,
        category |-> "Electrical",
        avg_price |-> 150,
        common_with |-> <<>>]
    @@ "alternator" :> [
        name |-> "Alternator",
        keywords |-> <<"alternator", "generator">>,
        patterns |-> <<
            [src |-> "alternator",
             re |-> Lit("alternator")],
            [src |-> "generator",
             re |-> Lit("generator")]>>,
        category |-> "Electrical",
        avg_price |-> 3000,
        common_with |-> <<>>]
    @@ "tire" :> [
        name |-> "Tire",
        keywords |-> <<"tire", "tyre", "tires", "tyres", "wheel", "wheels", "new tyre", "tire replaced">>,
        patterns |-> <<
            [src |-> "tires?",
             re |-> Cat(<<Lit("tire"), Opt(Lit("s"))>>)],
            [src |-> "tyres?",
             re |-> Cat(<<Lit("tyre"), Opt(Lit("s"))>>)],
            [src |-> "wheel\\s+tire",
             re |-> Cat(<<Lit("wheel"), Sp, Lit("tire")>>)],
            [src |-> "new\\s+(?:tire|tyre)",
             re |-> Cat(<<Lit("new"), Sp, Alt(<<Lit("tire"), Lit("tyre")>>)>>)]>>,
        category |-> "Tires",
        avg_price |-> 2000,
        common_with |-> <<"wheel alignment", "wheel balancing">>]
    @@ "wheel alignment" :> [
        name |-> "Wheel Alignment",
        keywords |-> <<"wheel alignment", "alignment", "wheel align", "alignment done">>,
        patterns |-> <<
            [src |-> "wheel\\s+alignment",
             re |-> Cat(<<Lit("wheel"), Sp, Lit("alignment")>>)],
            [src |-> "alignment",
             re |-> Lit("alignment")]>>,
        category |-> "Service",
        avg_price |-> 300,
        common_with |-> <<"tire", "wheel balancing">>]
    @@ "wheel balancing" :> [
        name |-> "Wheel Balancing",
        keywords |-> <<"wheel balancing", "balancing", "wheel balance", "balance wheels">>,
        patterns |-> <<
            [src |-> "wheel\\s+balancing",
             re |-> Cat(<<Lit("wheel"), Sp, Lit("balancing")>>)],
            [src |-> "balancing",
             re |-> Lit("balancing")]>>,
        category |-> "Service",
        avg_price |-> 200,
        common_with |-> <<"tire", "wheel alignment">>]
    @@ "ac gas" :> [
        name |-> "AC Gas",
        keywords |-> <<"ac gas", "refrigerant", "cooling gas", "ac refrigerant">>,
        patterns |-> <<
            [src |-> "ac\\s+gas",
             re |-> Cat(<<Lit("ac"), Sp, Lit("gas")>>)],
            [src |-> "refrigerant",
             re |-> Lit("refrigerant")],
            [src |-> "cooling\\s+gas",
             re |-> Cat(<<Lit("cooling"), Sp, Lit("gas")>>)]>>,
        category |-> "AC",
        avg_price |-> 800,
        common_with |-> <<>>]
    @@ "timing belt" :> [
        name |-> "Timing Belt",
        keywords |-> <<"timing belt", "cambelt", "timing chain">>,
        patterns |-> <<
            [src |-> "timing\\s+(?:belt|chain)",
             re |-> Cat(<<Lit("timing"), Sp, Alt(<<Lit("belt"), Lit("chain")>>)>>)],
            [src |-> "cam\\s+belt",
             re |-> Cat(<<Lit("cam"), Sp, Lit("belt")>>)]>>,
        category |-> "Engine",
        avg_price |-> 3000,
        common_with |-> <<>>]
    @@ "wiper blade" :> [
        name |-> "Wiper Blades",
        keywords |-> <<"wiper blade", "wiper", "windshield wiper", "wiper blades">>,
        patterns |-> <<
            [src |-> "wiper\\s+(?:blades?|blade)",
             re |-> Cat(<<Lit("wiper"), Sp, Alt(<<Cat(<<Lit("blade"), Opt(Lit("s"))>>), Lit("blade")>>)>>)],
            [src |-> "windshield\\s+wiper",
             re |-> Cat(<<Lit("windshield"), Sp, Lit("wiper")>>)]>>,
        category |-> "Exterior",
        avg_price |-> 500,
        common_with |-> <<>>]

\* ACTIONS in the source (a reserved word here); only the keywords are read
ACTIONS_DICT ==
       "replaced" :> [keywords |-> <<"replaced", "changed", "installed", "fitted", "put in", "new", "renewed", "substituted">>]
    @@ "repaired" :> [keywords |-> <<"repaired", "fixed", "mended", "adjusted", "tightened", "corrected", "serviced">>]
    @@ "checked" :> [keywords |-> <<"checked", "inspected", "examined", "tested", "verified", "looked at">>]
    @@ "cleaned" :> [keywords |-> <<"cleaned", "washed", "polished", "lubricated", "greased", "degreased">>]

\* bug variant: emergencies are looked for first
SERVICE_TYPE_IDS_emergency_first ==
    <<"emergency", "regular_service", "repair", "inspection", "warranty">>

\* the keys of SERVICE_TYPES, in the order of the dict literal
SERVICE_TYPE_IDS == <<"regular_service", "repair", "inspection", "emergency", "warranty">>

SERVICE_TYPES ==
       "regular_service" :> [
        keywords |-> <<"service", "maintenance", "regular", "periodic", "scheduled", "routine", "full service", "complete service">>,
        patterns |-> <<
            [src |-> "full\\s+service",
             re |-> Cat(<<Lit("full"), Sp, Lit("service")>>)],
            [src |-> "complete\\s+service",
             re |-> Cat(<<Lit("complete"), Sp, Lit("service")>>)],
            [src |-> "regular\\s+service",
             re |-> Cat(<<Lit("regular"), Sp, Lit("service")>>)]>>]
    @@ "repair" :> [
        keywords |-> <<"repair", "broken", "damaged", "faulty", "not working", "issue", "problem", "fix">>,
        patterns |-> <<
            [src |-> "repair",
             re |-> Lit("repair")],
            [src |-> "broken",
             re |-> Lit("broken")],
            [src |-> "not\\s+working",
             re |-> Cat(<<Lit("not"), Sp, Lit("working")>>)]>>]
    @@ "inspection" :> [
        keywords |-> <<"inspection", "check", "test", "diagnosis", "evaluation", "scan">>,
        patterns |-> <<
            [src |-> "inspection",
             re |-> Lit("inspection")],
            [src |-> "check",
             re |-> Lit("check")],
            [src |-> "diagnosis",
             re |-> Lit("diagnosis")]>>]
    @@ "emergency" :> [
        keywords |-> <<"emergency", "urgent", "breakdown", "tow", "stranded", "immediate">>,
        patterns |-> <<
            [src |-> "emergency",
             re |-> Lit("emergency")],
            [src |-> "breakdown",
             re |-> Lit("breakdown")],
            [src |-> "urgent",
             re |-> Lit("urgent")]>>]
    @@ "warranty" :> [
        keywords |-> <<"warranty", "guarantee", "under warranty">>,
        patterns |-> <<
            [src |-> "warranty",
             re |-> Lit("warranty")],
            [src |-> "guarantee",
             re |-> Lit("guarantee")]>>]

compiled_cost == <<
    [src |-> "total\\s*[:\\-]?\\s*[Rs$]?\\s*(\\d+(?:\\.\\d+)?)",
      re |-> Cat(<<Lit("total"), Ss, Opt(In({":", "-"})), Ss, Opt(RsD), Ss, Grp(Num)>>)],
    [src |-> "[Rs$]\\s*(\\d+(?:\\.\\d+)?)\\s*(?:in total|total|altogether)",
      re |-> Cat(<<RsD, Ss, Grp(Num), Ss, Alt(<<Lit("in total"), Lit("total"), Lit("altogether")>>)>>)],
    [src |-> "cost\\s*(?:is|of|was)?\\s*[:\\-]?\\s*[Rs$]?\\s*(\\d+(?:\\.\\d+)?)",
      re |-> Cat(<<Lit("cost"), Ss, Opt(Alt(<<Lit("is"), Lit("of"), Lit("was")>>)), Ss, Opt(In({":", "-"})), Ss, Opt(RsD), Ss, Grp(Num)>>)],
    [src |-> "(\\d+(?:\\.\\d+)?)\\s*(?:rs|rupees|Rs|inr)\\s*(?:in total|total)?",
      re |-> Cat(<<Grp(Num), Ss, Alt(<<Lit("rs"), Lit("rupees"), Lit("rs"), Lit("inr")>>), Ss, Opt(Alt(<<Lit("in total"), Lit("total")>>))>>)],
    [src |-> "[Rs$]\\s*(\\d+(?:\\.\\d+)?)",
      re |-> Cat(<<RsD, Ss, Grp(Num)>>)],
    [src |-> "charged\\s*[Rs$]?\\s*(\\d+(?:\\.\\d+)?)",
      re |-> Cat(<<Lit("charged"), Ss, Opt(RsD), Ss, Grp(Num)>>)],
    [src |-> "bill\\s*(?:of|for)?\\s*[Rs$]?\\s*(\\d+(?:\\.\\d+)?)",
      re |-> Cat(<<Lit("bill"), Ss, Opt(Alt(<<Lit("of"), Lit("for")>>)), Ss, Opt(RsD), Ss, Grp(Num)>>)],
    [src |-> "(\\d+)\\s*(?:rupees|rs|rp)",
      re |-> Cat(<<Grp(Plus(D)), Ss, Alt(<<Lit("rupees"), Lit("rs"), Lit("rp")>>)>>)]>>

compiled_odometer == <<
    [src |-> "(\\d{4,6})\\s*(?:km|kms|kilometer|kilometers)",
      re |-> Cat(<<Grp(Between(D, 4, 6)), Ss, Alt(<<Lit("km"), Lit("kms"), Lit("kilometer"), Lit("kilometers")>>)>>)],
    [src |-> "odometer\\s*(?:reading|is|at)?\\s*[:\\-]?\\s*(\\d+)",
      re |-> Cat(<<Lit("odometer"), Ss, Opt(Alt(<<Lit("reading"), Lit("is"), Lit("at")>>)), Ss, Opt(In({":", "-"})), Ss, Grp(Plus(D))>>)],
    [src |-> "(\\d+)\\s*(?:on the odometer|reading|on odometer)",
      re |-> Cat(<<Grp(Plus(D)), Ss, Alt(<<Lit("on the odometer"), Lit("reading"), Lit("on odometer")>>)>>)],
    [src |-> "at\\s*(\\d+)\\s*km",
      re |-> Cat(<<Lit("at"), Ss, Grp(Plus(D)), Ss, Lit("km")>>)],
    [src |-> "(\\d+)\\s*km\\s*(?:done|completed|run)",
      re |-> Cat(<<Grp(Plus(D)), Ss, Lit("km"), Ss, Alt(<<Lit("done"), Lit("completed"), Lit("run")>>)>>)],
    [src |-> "(\\d+)\\s*(?:km\\s*reading)",
      re |-> Cat(<<Grp(Plus(D)), Ss, Cat(<<Lit("km"), Ss, Lit("reading")>>)>>)]>>

compiled_quantity == <<
    [src |-> "all\\s*(\\d+)?\\s*(?:tires|tyres|wheels)",
      re |-> Cat(<<Lit("all"), Ss, Opt(Grp(Plus(D))), Ss, Alt(<<Lit("tires"), Lit("tyres"), Lit("wheels")>>)>>)],
    [src |-> "(\\d+)\\s*(?:tires|tyres|wheels)",
      re |-> Cat(<<Grp(Plus(D)), Ss, Alt(<<Lit("tires"), Lit("tyres"), Lit("wheels")>>)>>)],
    [src |-> "both\\s*(?:front|rear)",
      re |-> Cat(<<Lit("both"), Ss, Alt(<<Lit("front"), Lit("rear")>>)>>)],
    [src |-> "front\\s*and\\s*rear",
      re |-> Cat(<<Lit("front"), Ss, Lit("and"), Ss, Lit("rear")>>)],
    [src |-> "(\\d+)\\s*(?:pcs|pieces|units)",
      re |-> Cat(<<Grp(Plus(D)), Ss, Alt(<<Lit("pcs"), Lit("pieces"), Lit("units")>>)>>)],
    [src |-> "(\\d+)\\s*(?:set|sets)",
      re |-> Cat(<<Grp(Plus(D)), Ss, Alt(<<Lit("set"), Lit("sets")>>)>>)]>>

compiled_patterns ==
    [cost |-> compiled_cost, odometer |-> compiled_odometer,
     quantity |-> compiled_quantity]

(***************************************************************************)
(* _preprocess_text                                                        *)
(***************************************************************************)
\* the replacements dictionary, in insertion order (applied to lower-cased
\* text, so the entry with a capital letter never finds anything)
REPLACEMENTS ==
    << <<" & ", " and ">>, <<" + ", " and ">>, <<" w/ ", " with ">>,
       <<" w ", " with ">>, <<" ac ", " air conditioning ">>,
       <<" a/c ", " air conditioning ">>, <<" km ", " kilometers ">>,
       <<" kms ", " kilometers ">>, <<" rs ", " rupees ">>,
       <<" Rs", " rupees ">>, <<"inr ", "rupees ">> >>

\* "for old, new in replacements.items()": each replacement is carried out
\* (Len(...) >= 0 evaluates it) before the next one starts
RECURSIVE ApplyReplacements(_, _)
ApplyReplacements(s, k) ==
    IF k > Len(REPLACEMENTS) THEN s
    ELSE LET processed == Replace(s, REPLACEMENTS[k][1], REPLACEMENTS[k][2])
         IN  IF Len(processed) >= 0 THEN ApplyReplacements(processed, k + 1)
             ELSE processed

preprocess_text(text) ==
    LET processed == ApplyReplacements(text, 1)
    IN  IF Len(processed) >= 0
        THEN Strip(CollapseSpaces(processed, 1, Len(processed)))
        ELSE processed

(***************************************************************************)
(* _extract_service_type                                                   *)
(***************************************************************************)
\* rf'\b{keyword}\b'
WordPattern(keyword) == Cat(<<WB, Lit(keyword), WB>>)

ContainsAny(text, words) == \E w \in words : Contains(text, w)

ServiceTypeHit(service_type, text_lower) ==
    LET data == SERVICE_TYPES[service_type]
    IN  \/ \E k \in 1..Len(data.patterns) :
                Found(data.patterns[k].re, text_lower)
        \/ \E k \in 1..Len(data.keywords) :
                Found(WordPattern(data.keywords[k]), text_lower)

\* "for service_type, data in self.SERVICE_TYPES.items()": the first type
\* that is hit is returned
ServiceTypeLoop(text_lower) ==
    FirstSome([k \in 1..Len(SERVICE_TYPE_IDS) |->
                IF ServiceTypeHit(SERVICE_TYPE_IDS[k], text_lower)
                THEN Some(SERVICE_TYPE_IDS[k]) ELSE None])

\* bug variant: the default is the member's printed name, not its value
DefaultServiceType_member_name(text_lower) == "ServiceType.REGULAR_SERVICE"

\* "Default based on context"
DefaultServiceType(text_lower) ==
    IF ContainsAny(text_lower,
            {"full service", "complete service", "major service"})
    THEN "regular_service"
    ELSE IF ContainsAny(text_lower,
                {"emergency", "breakdown", "stranded", "urgent"})
         THEN "emergency"
         ELSE "regular_service"

ServiceTypeOf(text_lower) ==
    OrElse(ServiceTypeLoop(text_lower), DefaultServiceType(text_lower))
extract_service_type(text) == ServiceTypeOf(Lower(text))

(***************************************************************************)
(* _extract_quantity.  The result is [raised, value]: raised stands for    *)
(* the IndexError of match.group(1) on a pattern that has no group, which  *)
(* "except (ValueError, AttributeError)" does not catch.                   *)
(***************************************************************************)
Returned(v) == [raised |-> FALSE, value |-> v]
IndexError == [raised |-> TRUE, value |-> 0]

IsTireKeyword(part_keyword) ==
    Contains(part_keyword, "tire") \/ Contains(part_keyword, "tyre")

\* the body of "for pattern in self.compiled_patterns['quantity']": Some(r)
\* when the iteration returns or raises, None when the loop goes on
CompiledQuantityMatch(pattern, text_lower, part_keyword, match) ==
    IF match.s = 0 THEN None
    ELSE IF ~HasGroup(pattern.re) THEN Some(IndexError)
    ELSE IF Group1(text_lower, match) # ""
         THEN Some(Returned(ToInt(Group1(text_lower, match))))
    ELSE IF Contains(pattern.src, "all") /\ IsTireKeyword(part_keyword)
         THEN Some(Returned(4))
    ELSE IF Contains(pattern.src, "front and rear")
         THEN Some(Returned(2))
    ELSE None
CompiledQuantityStep(pattern, text_lower, part_keyword) ==
    CompiledQuantityMatch(pattern, text_lower, part_keyword,
                          Search(pattern.re, text_lower))

\* specific_patterns, built from the part keyword
specific_patterns(part_keyword) ==
    << [src |-> "(\\d+)\\s+" \o part_keyword \o "s?",
        re |-> Cat(<<Grp(Plus(D)), Sp, Lit(part_keyword), Opt(Lit("s"))>>)],
       [src |-> part_keyword \o "s?\\s+(\\d+)",
        re |-> Cat(<<Lit(part_keyword), Opt(Lit("s")), Sp, Grp(Plus(D))>>)],
       [src |-> "all\\s+" \o part_keyword \o "s?",
        re |-> Cat(<<Lit("all"), Sp, Lit(part_keyword), Opt(Lit("s"))>>)] >>

\* the body of "for pattern in specific_patterns"
SpecificQuantityMatch(pattern, text_lower, part_keyword, match) ==
    IF match.s = 0 THEN None
    ELSE IF ~HasGroup(pattern.re) THEN Some(IndexError)
    ELSE IF Group1(text_lower, match) # ""
         THEN Some(Returned(ToInt(Group1(text_lower, match))))
    ELSE IF Contains(pattern.src, "all") /\ IsTireKeyword(part_keyword)
         THEN Some(Returned(4))
    ELSE None
SpecificQuantityStep(pattern, text_lower, part_keyword) ==
    SpecificQuantityMatch(pattern, text_lower, part_keyword,
                          Search(pattern.re, text_lower))

\* "Default based on part type"
DefaultQuantity(text_lower, part_keyword) ==
    IF IsTireKeyword(part_keyword)
    THEN IF \/ Found(Cat(<<Lit("all"), Ss,
                        Alt(<<Lit("tires"), Lit("tyres")>>)>>), text_lower)
            \/ Found(Cat(<<Lit("4"), Ss,
                        Alt(<<Lit("tires"), Lit("tyres")>>)>>), text_lower)
         THEN 4 ELSE 1
    ELSE IF Contains(part_keyword, "brake pad")
            /\ Found(Cat(<<Lit("front"), Sp, Lit("and"), Sp, Lit("rear")>>),
                     text_lower)
         THEN 2
    ELSE IF Contains(part_keyword, "brake pad")
            /\ Found(Cat(<<Lit("all"), Sp, Lit("four")>>), text_lower)
         THEN 4
    ELSE 1

\* "for pattern in specific_patterns"
SpecificQuantityLoop(text_lower, part_keyword) ==
    FirstSome([k \in 1..Len(specific_patterns(part_keyword)) |->
                SpecificQuantityStep(specific_patterns(part_keyword)[k],
                                     text_lower, part_keyword)])

\* "for pattern in self.compiled_patterns['quantity']"
CompiledQuantityLoop(text_lower, part_keyword) ==
    FirstSome([k \in 1..Len(compiled_patterns.quantity) |->
                CompiledQuantityStep(compiled_patterns.quantity[k],
                                     text_lower, part_keyword)])

\* the two loops in turn, then the default
QuantityOf(text_lower, part_keyword) ==
    OrElse(CompiledQuantityLoop(text_lower, part_keyword),
           OrElse(SpecificQuantityLoop(text_lower, part_keyword),
                  Returned(DefaultQuantity(text_lower, part_keyword))))
extract_quantity(text, part_keyword) == QuantityOf(Lower(text), part_keyword)

(***************************************************************************)
(* Part detection                                                          *)
(***************************************************************************)
\* bug variant: the catalog entry itself is updated and handed out
create_part_dict_alias(part_id, part_info, action, quantity, detection_method) ==
    [id |-> part_id,
     estimated_price |-> part_info.avg_price,
     action |-> action,
     quantity |-> quantity,
     detection_method |-> detection_method] @@ part_info

create_part_dict(part_id, part_info, action, quantity, detection_method) ==
    [id |-> part_id,
     name |-> part_info.name,
     category |-> part_info.category,
     estimated_price |-> part_info.avg_price,
     action |-> action,
     quantity |-> quantity,
     detection_method |-> detection_method]

\* What a strategy hands back: the parts it appended, or raised when one of
\* its _extract_quantity calls raised.  A candidate is a part with the
\* [raised, value] result of _extract_quantity in place of the quantity.
Candidates(cands) ==
    [raised |-> \E k \in 1..Len(cands) : cands[k].quantity.raised,
     parts |-> [k \in 1..Len(cands) |->
                    [cands[k] EXCEPT !.quantity = cands[k].quantity.value]]]

\* rf'{action_keyword}\s+[^.]*?\b{re.escape(part_info["keywords"][0])}\b'
context_pattern(action_keyword, keyword) ==
    Cat(<<Lit(action_keyword), Sp, LazyStar(NotDot), WB, Lit(keyword), WB>>)

\* Strategy 1 for one part: one candidate per pattern of the part that
\* matches, provided some action keyword of action_type precedes the part's
\* first keyword within the sentence
\* bug variant: a matching pattern is enough, no action is looked for
PartInContext_without_action(text, action_type, part_id, part_info, matched) ==
    [k \in 1..Len(matched) |->
        create_part_dict(part_id, part_info, action_type,
                         extract_quantity(text, part_info.keywords[1]),
                         matched[k].src)]

PartInContext(text, action_type, part_id, part_info, matched) ==
    LET keywords == ACTIONS_DICT[action_type].keywords
        near == \E k \in 1..Len(keywords) :
                    Found(context_pattern(keywords[k],
                                          part_info.keywords[1]), text)
        quantity == extract_quantity(text, part_info.keywords[1])
    IN  IF matched = <<>> \/ ~near THEN <<>>
        ELSE [k \in 1..Len(matched) |->
                create_part_dict(part_id, part_info, action_type, quantity,
                                 matched[k].src)]
PartInfoByPattern(text, action_type, part_id, part_info) ==
    PartInContext(text, action_type, part_id, part_info,
                  SelectSeq(part_info.patterns, LAMBDA p : Found(p.re, text)))
PartByPattern(text, action_type, part_id) ==
    PartInfoByPattern(text, action_type, part_id, PARTS_DICT[part_id])

extract_parts_with_improved_detection(text, action_type) ==
    Candidates(Concat([k \in 1..Len(PART_IDS) |->
                        PartByPattern(text, action_type, PART_IDS[k])]))

\* Strategy 2: comma-separated lists
list_patterns ==
    << [src |-> "(?:with|including)\\s+(.+?)(?:\\.|for|at|Rs|$)",
        re |-> Cat(<<Alt(<<Lit("with"), Lit("including")>>), Sp,
                     Grp(LazyPlus(Dot)),
                     Alt(<<Lit("."), Lit("for"), Lit("at"), Lit("rs"), EOS>>)>>)],
       [src |-> "(?:replaced|changed)\\s+(.+?)(?:\\.|for|at|Rs|$)",
        re |-> Cat(<<Alt(<<Lit("replaced"), Lit("changed")>>), Sp,
                     Grp(LazyPlus(Dot)),
                     Alt(<<Lit("."), Lit("for"), Lit("at"), Lit("rs"), EOS>>)>>)],
       [src |-> "full service\\s+(?:with\\s+)?(.+?)(?:\\.|for|at|Rs|$)",
        re |-> Cat(<<Lit("full service"), Sp, Opt(Cat(<<Lit("with"), Sp>>)),
                     Grp(LazyPlus(Dot)),
                     Alt(<<Lit("."), Lit("for"), Lit("at"), Lit("rs"), EOS>>)>>)],
       [src |-> "service\\s+(?:with\\s+)?(.+?)(?:\\.|for|at|Rs|$)",
        re |-> Cat(<<Lit("service"), Sp, Opt(Cat(<<Lit("with"), Sp>>)),
                     Grp(LazyPlus(Dot)),
                     Alt(<<Lit("."), Lit("for"), Lit("at"), Lit("rs"), EOS>>)>>)] >>

\* r'[,\s]+and\s+|\s*,\s*|\s+&\s+'
item_separator ==
    Alt(<<Cat(<<Plus(In({","} \cup SPACES)), Lit("and"), Sp>>),
          Cat(<<Ss, Lit(","), Ss>>),
          Cat(<<Sp, Lit("&"), Sp>>)>>)

\* one item against one part: the first keyword of the part contained in the
\* item decides (the inner loop breaks there)
PartOfItem(text, item, part_id) ==
    LET part_info == PARTS_DICT[part_id]
        hits == {k \in 1..Len(part_info.keywords) :
                    Contains(Lower(item), part_info.keywords[k])}
    IN  IF hits = {} THEN <<>>
        ELSE <<create_part_dict(part_id, part_info, "replaced",
                    extract_quantity(text, part_info.keywords[MinOf(hits)]),
                    "comma_list")>>

PartsOfItem(text, raw_item) ==
    LET item == Strip(raw_item)
    IN  IF Len(item) > 2
        THEN Concat([k \in 1..Len(PART_IDS) |->
                        PartOfItem(text, item, PART_IDS[k])])
        ELSE <<>>

PartsOfList(text, pattern) ==
    LET match == Search(pattern.re, text)
        items == Split(item_separator, Group1(text, match))
    IN  IF match.s = 0 THEN <<>>
        ELSE Concat([k \in 1..Len(items) |-> PartsOfItem(text, items[k])])

extract_comma_separated_parts(text) ==
    Candidates(Concat([k \in 1..Len(list_patterns) |->
                        PartsOfList(text, list_patterns[k])]))

\* Strategy 3: context rules.  AddMissing is the recurring inner loop: every
\* identifier of part_ids that no part of existing_parts + added_parts has
\* is appended to added_parts with quantity 1.  (The test on Len(added_parts)
\* never holds; it has the list built at every iteration, not at the end.)
\* bug variant: the "already found" test never finds anything
HasId_never(parts, part_id) == FALSE

HasId(parts, part_id) == \E k \in 1..Len(parts) : parts[k].id = part_id

RECURSIVE AddMissing(_, _, _, _, _)
AddMissing(part_ids, k, existing_parts, added_parts, detection_method) ==
    IF Len(added_parts) < 0 \/ k > Len(part_ids) THEN added_parts
    ELSE AddMissing(part_ids, k + 1, existing_parts,
            IF /\ part_ids[k] \in DOMAIN PARTS_DICT
               /\ ~HasId(existing_parts \o added_parts, part_ids[k])
            THEN Append(added_parts,
                    create_part_dict(part_ids[k], PARTS_DICT[part_ids[k]],
                                     "replaced", 1, detection_method))
            ELSE added_parts,
            detection_method)

\* Rule 3: "for part in existing_parts: ... for related_part_id in common_with"
RECURSIVE CommonCombos(_, _, _)
CommonCombos(existing_parts, k, added_parts) ==
    IF Len(added_parts) < 0 \/ k > Len(existing_parts) THEN added_parts
    ELSE CommonCombos(existing_parts, k + 1,
            IF existing_parts[k].id \in DOMAIN PARTS_DICT
            THEN AddMissing(PARTS_DICT[existing_parts[k].id].common_with, 1,
                            existing_parts, added_parts, "common_combo")
            ELSE added_parts)

apply_context_rules(text, existing_parts) ==
    LET text_lower == Lower(text)
        rule1 == IF ContainsAny(text_lower,
                        {"full service", "complete service", "major service"})
                 THEN AddMissing(<<"engine oil", "oil filter", "air filter">>,
                                 1, existing_parts, <<>>,
                                 "full_service_context")
                 ELSE <<>>
        rule2 == IF /\ \/ \E k \in 1..Len(existing_parts) :
                            Contains(existing_parts[k].id, "tire")
                       \/ Contains(text_lower, "tire")
                       \/ Contains(text_lower, "tyre")
                    /\ Found(Alt(<<Lit("balancing"), Lit("alignment")>>),
                             text_lower)
                 THEN AddMissing(<<"wheel alignment", "wheel balancing">>,
                                 1, existing_parts, rule1, "tire_context")
                 ELSE rule1
    IN  CommonCombos(existing_parts, 1, rule2)

\* Strategy 4: implied replacements
implied_patterns ==
    << [src |-> "oils?\\s+change", hint |-> "engine oil",
        re |-> Cat(<<Lit("oil"), Opt(Lit("s")), Sp, Lit("change")>>)],
       [src |-> "oil\\s+and\\s+filter", hint |-> "oil filter",
        re |-> Cat(<<Lit("oil"), Sp, Lit("and"), Sp, Lit("filter")>>)],
       [src |-> "new\\s+battery", hint |-> "battery",
        re |-> Cat(<<Lit("new"), Sp, Lit("battery")>>)],
       [src |-> "filter\\s+change", hint |-> "oil filter",
        re |-> Cat(<<Lit("filter"), Sp, Lit("change")>>)],
       [src |-> "brake\\s+service", hint |-> "brake pad",
        re |-> Cat(<<Lit("brake"), Sp, Lit("service")>>)],
       [src |-> "brake\\s+job", hint |-> "brake pad",
        re |-> Cat(<<Lit("brake"), Sp, Lit("job")>>)],
       [src |-> "full\\s+service", hint |-> "multiple",
        re |-> Cat(<<Lit("full"), Sp, Lit("service")>>)],
       [src |-> "tire\\s+rotation", hint |-> "tire",
        re |-> Cat(<<Lit("tire"), Sp, Lit("rotation")>>)],
       [src |-> "wheel\\s+service", hint |-> "wheel alignment",
        re |-> Cat(<<Lit("wheel"), Sp, Lit("service")>>)] >>

common_service_parts == <<"engine oil", "oil filter", "air filter">>

ImpliedBy(text_lower, implied) ==
    IF ~Found(implied.re, text_lower) THEN <<>>
    ELSE IF implied.hint = "multiple"
         THEN [k \in 1..Len(common_service_parts) |->
                create_part_dict(common_service_parts[k],
                                 PARTS_DICT[common_service_parts[k]],
                                 "replaced", 1, "implied_full_service")]
    ELSE IF implied.hint \in DOMAIN PARTS_DICT
         THEN <<create_part_dict(implied.hint, PARTS_DICT[implied.hint],
                                 "replaced", 1, "implied_" \o implied.src)>>
    ELSE <<>>

extract_implied_parts(text) ==
    Concat([k \in 1..Len(implied_patterns) |->
                ImpliedBy(Lower(text), implied_patterns[k])])

\* _remove_duplicate_parts: the loop over parts with seen_ids, unique_parts
RECURSIVE RemoveDuplicatesLoop(_, _, _, _)
RemoveDuplicatesLoop(parts, k, seen_ids, unique_parts) ==
    IF Len(unique_parts) < 0 \/ k > Len(parts) THEN unique_parts
    ELSE IF parts[k].id \notin seen_ids
         THEN RemoveDuplicatesLoop(parts, k + 1, seen_ids \cup {parts[k].id},
                                   Append(unique_parts, parts[k]))
         ELSE RemoveDuplicatesLoop(parts, k + 1, seen_ids, unique_parts)

\* bug variant: nothing is removed
remove_duplicate_parts_identity(parts) == parts

\* bug variant: a later duplicate overwrites the entry kept so far
remove_duplicate_parts_keep_last(parts) ==
    LET firsts == SelectSeq([k \in 1..Len(parts) |-> k],
                    LAMBDA k : \A j \in 1..(k - 1) : parts[j].id # parts[k].id)
        LastOf(k) == CHOOSE j \in k..Len(parts) :
                        /\ parts[j].id = parts[k].id
                        /\ \A i \in (j + 1)..Len(parts) : parts[i].id # parts[k].id
    IN  [i \in 1..Len(firsts) |-> parts[LastOf(firsts[i])]]

remove_duplicate_parts(parts) == RemoveDuplicatesLoop(parts, 1, {}, <<>>)

(***************************************************************************)
(* Costs (hundredths of a rupee) and odometer                              *)
(***************************************************************************)
\* the three patterns _extract_cost builds for one keyword
cost_patterns(keyword) ==
    << \* rf'{keyword}\s*(?:cost|charge|fee)?\s*[:\-]?\s*[Rs$]?\s*(\d+(?:\.\d+)?)'
       Cat(<<Lit(keyword), Ss,
             Opt(Alt(<<Lit("cost"), Lit("charge"), Lit("fee")>>)), Ss,
             Opt(In({":", "-"})), Ss, Opt(RsD), Ss, Grp(Num)>>),
       \* rf'[Rs$]\s*(\d+(?:\.\d+)?)\s*(?:for|on)\s*{keyword}'
       Cat(<<RsD, Ss, Grp(Num), Ss, Alt(<<Lit("for"), Lit("on")>>), Ss,
             Lit(keyword)>>),
       \* rf'{keyword}\s*[Rs$]\s*(\d+(?:\.\d+)?)'
       Cat(<<Lit(keyword), Ss, RsD, Ss, Grp(Num)>>) >>

\* "if match: return float(match.group(1))"
CostOfMatch(text_lower, match) ==
    IF match.s # 0 THEN Some(ToCents(Group1(text_lower, match))) ELSE None
\* "for pattern in patterns", for one keyword
KeywordCostLoop(text_lower, patterns) ==
    FirstSome([j \in 1..Len(patterns) |->
                CostOfMatch(text_lower, Search(patterns[j], text_lower))])
\* "for keyword in keywords"
ExtractCostLoop(text_lower, keywords) ==
    FirstSome([k \in 1..Len(keywords) |->
                KeywordCostLoop(text_lower, cost_patterns(keywords[k]))])

extract_cost(text, keywords) ==
    OrElse(ExtractCostLoop(Lower(text), keywords), 0)

labor_keywords == <<"labor", "work", "service", "charge", "fee">>
parts_keywords == <<"parts", "spares", "components", "material">>

\* bug variant: the upper limit lost three zeros
ReasonableAmount_low_limit(amount) == 10 * 100 <= amount /\ amount <= 1000 * 100

\* "if 10 <= amount <= 1000000", in hundredths
ReasonableAmount(amount) == 10 * 100 <= amount /\ amount <= 1000000 * 100

\* bug variant: only the first compiled pattern ("total ...") is consulted
extract_total_cost_first_pattern(text) ==
    LET text_lower == Lower(text)
        found == FindAll(compiled_patterns.cost[1].re, text_lower)
        all_amounts == SelectSeq([k \in 1..Len(found) |-> ToCents(found[k])],
                                 ReasonableAmount)
    IN  IF all_amounts = <<>> THEN 0
        ELSE MaxOf({all_amounts[k] : k \in 1..Len(all_amounts)})

\* bug variant: the amount mentioned last wins, not the largest
extract_total_cost_last_amount(text) ==
    LET text_lower == Lower(text)
        found == Concat([k \in 1..Len(compiled_patterns.cost) |->
                            FindAll(compiled_patterns.cost[k].re, text_lower)])
        all_amounts == SelectSeq([k \in 1..Len(found) |-> ToCents(found[k])],
                                 ReasonableAmount)
    IN  IF all_amounts = <<>> THEN 0 ELSE all_amounts[Len(all_amounts)]

extract_total_cost(text) ==
    LET text_lower == Lower(text)
        found == Concat([k \in 1..Len(compiled_patterns.cost) |->
                            FindAll(compiled_patterns.cost[k].re, text_lower)])
        all_amounts == SelectSeq([k \in 1..Len(found) |-> ToCents(found[k])],
                                 ReasonableAmount)
    IN  IF all_amounts = <<>> THEN 0
        ELSE IF Len(all_amounts) > 1
             THEN MaxOf({all_amounts[k] : k \in 1..Len(all_amounts)})
             ELSE all_amounts[1]

\* bug variant: no validation of the reading
ReasonableOdometer_any(value) == TRUE

\* "if 1000 <= value <= 500000"
ReasonableOdometer(value) == 1000 <= value /\ value <= 500000

\* "value = int(match.group(1))" and the range test
OdometerOfValue(value) == IF ReasonableOdometer(value) THEN Some(value) ELSE None
OdometerOfMatch(text_lower, match) ==
    IF match.s # 0 THEN OdometerOfValue(ToInt(Group1(text_lower, match)))
    ELSE None
\* "for pattern in self.compiled_patterns['odometer']"
ExtractOdometerLoop(text_lower) ==
    FirstSome([k \in 1..Len(compiled_patterns.odometer) |->
                OdometerOfMatch(text_lower,
                    Search(compiled_patterns.odometer[k].re, text_lower))])

extract_odometer(text) == ExtractOdometerLoop(Lower(text))

\* _estimate_cost, in hundredths (repair_cost = estimated_price * 0.5 * quantity)
RECURSIVE SumPrices(_, _, _)
SumPrices(parts, k, per_unit_percent) ==
    IF k > Len(parts) THEN 0
    ELSE parts[k].estimated_price * per_unit_percent * parts[k].quantity
            + SumPrices(parts, k + 1, per_unit_percent)

estimate_cost(replaced, repaired, labor) ==
    LET total == labor + SumPrices(replaced, 1, 100) + SumPrices(repaired, 1, 50)
    IN  IF labor = 0 /\ total > 0
        THEN total + Max((total * 3) \div 10, 500 * 100)
        ELSE total

(***************************************************************************)
(* Date info, confidence (hundredths), work summary                        *)
(***************************************************************************)
date_patterns ==
    << \* r'(\d{1,2})[/\-](\d{1,2})[/\-](\d{4})'
       Cat(<<Grp(Between(D, 1, 2)), In({"/", "-"}), Grp(Between(D, 1, 2)), In({"/", "-"}), Grp(Between(D, 4, 4))>>),
       \* r'(\d{1,2})\s+(?:jan|feb|mar|apr|may|jun|jul|aug|sep|oct|nov|dec)[a-z]*\s+(\d{4})'
       Cat(<<Grp(Between(D, 1, 2)), Sp, Alt(<<Lit("jan"), Lit("feb"), Lit("mar"), Lit("apr"), Lit("may"), Lit("jun"), Lit("jul"), Lit("aug"), Lit("sep"), Lit("oct"), Lit("nov"), Lit("dec")>>), Star(In(LOWERSET)), Sp, Grp(Between(D, 4, 4))>>) >>

\* a dict as a function from its keys; <<>> is the empty dict
EmptyDict == <<>>

extract_date_info(text) ==
    LET text_lower == Lower(text)
        day == IF Contains(text_lower, "today")
                    THEN "service_date" :> "today"
               ELSE IF Contains(text_lower, "tomorrow")
                    THEN "service_date" :> "tomorrow"
               ELSE IF Contains(text_lower, "yesterday")
                    THEN "service_date" :> "yesterday"
               ELSE EmptyDict
        next == IF ContainsAny(text_lower, {"next service",
                        "next maintenance", "come back", "return in"})
                THEN "has_next_service" :> TRUE ELSE EmptyDict
        hits == {k \in 1..Len(date_patterns) :
                    Found(date_patterns[k], text_lower)}
        specific == IF hits = {} THEN EmptyDict
                    ELSE "specific_date" :>
                            Group0(text_lower,
                                   Search(date_patterns[MinOf(hits)], text_lower))
    IN  day @@ next @@ specific

good_keywords ==
    <<"replaced", "changed", "service", "cost", "rupees", "km", "filter",
      "oil", "brake", "tire">>
action_words == {"replaced", "changed", "fixed", "installed", "checked"}
context_words == {"service", "maintenance", "repair", "inspection"}

\* the sum of the base and the bonuses, before the final min(confidence, 1.0)
ConfidenceSum(text, replaced, repaired, total, odo) ==
    LET parts_count == Len(replaced) + Len(repaired)
        keyword_count ==
            Cardinality({k \in 1..Len(good_keywords) :
                Found(WordPattern(good_keywords[k]), Lower(text))})
        word_count == WordCount(text)
        confidence ==
            30
            + (IF parts_count > 0 THEN Min(40, parts_count * 15) ELSE 0)
            + (IF total > 0
               THEN 20 + (IF 100 * 100 <= total /\ total <= 100000 * 100
                          THEN 5 ELSE 0)
               ELSE 0)
            + (IF odo # None /\ odo[1] # 0 THEN 10 ELSE 0)
            + Min(15, keyword_count * 2)
            + (IF word_count > 10 THEN 10
               ELSE IF word_count > 5 THEN 5 ELSE 0)
            + (IF ContainsAny(Lower(text), action_words) THEN 5 ELSE 0)
            + (IF ContainsAny(Lower(text), context_words) THEN 5 ELSE 0)
    IN  confidence

\* bug variant: the final clamp is missing
calculate_improved_confidence_unclamped(text, replaced, repaired, total, odo) ==
    ConfidenceSum(text, replaced, repaired, total, odo)

\* bug variant: the engine remembers on self that it has served a call, and
\* the calls that follow score higher
calculate_improved_confidence_warm(text, replaced, repaired, total, odo) ==
    Min(ConfidenceSum(text, replaced, repaired, total, odo)
            + (IF other.pc = "idle" THEN 0 ELSE 5), 100)

calculate_improved_confidence(text, replaced, repaired, total, odo) ==
    Min(ConfidenceSum(text, replaced, repaired, total, odo), 100)

\* str(n) for n >= 0
RECURSIVE ToStr(_)
ToStr(n) ==
    IF n < 10 THEN Ch("0123456789", n + 1)
    ELSE ToStr(n \div 10) \o Ch("0123456789", (n % 10) + 1)

\* f"{x:.2f}" for x given in hundredths
Format2f(cents) ==
    ToStr(cents \div 100) \o "." \o ToStr((cents % 100) \div 10)
        \o ToStr(cents % 10)

\* sep.join(strs)
RECURSIVE Join(_, _)
Join(strs, sep) ==
    IF strs = <<>> THEN ""
    ELSE IF Len(strs) = 1 THEN strs[1]
    ELSE strs[1] \o sep \o Join(Tail(strs), sep)

\* str.title(): a letter is upper-cased after a non-letter, lower-cased
\* after a letter
UpperCh(c) ==
    LET u == {i \in 1..26 : Ch(LOWERS, i) = c}
    IN  IF u = {} THEN c ELSE Ch(UPPERS, CHOOSE i \in u : TRUE)
IsLetter(c) == c \in LOWERSET \/ LowerCh(c) # c
RECURSIVE TitleRange(_, _, _)
TitleRange(s, lo, hi) ==
    IF lo > hi THEN ""
    ELSE IF lo = hi
         THEN IF lo > 1 /\ IsLetter(Ch(s, lo - 1)) THEN LowerCh(Ch(s, lo))
              ELSE UpperCh(Ch(s, lo))
    ELSE LET h == (lo + hi) \div 2
         IN  TitleRange(s, lo, h) \o TitleRange(s, h + 1, hi)
\* service_type.replace('_', ' ').title()
ServiceName(type) ==
    LET spaced == Replace(type, "_", " ")
    IN  TitleRange(spaced, 1, Len(spaced))

generate_detailed_work_summary(replaced, repaired, type, total) ==
    LET replaced_names ==
            [k \in 1..Len(replaced) |->
                IF replaced[k].quantity > 1
                THEN replaced[k].name \o " (x"
                        \o ToStr(replaced[k].quantity) \o ")"
                ELSE replaced[k].name]
        repaired_names == [k \in 1..Len(repaired) |-> repaired[k].name]
        summary_parts ==
            (IF replaced # <<>>
             THEN <<"Replaced: " \o Join(replaced_names, ", ")>> ELSE <<>>)
            \o (IF repaired # <<>>
                THEN <<"Repaired: " \o Join(repaired_names, ", ")>> ELSE <<>>)
    IN  IF summary_parts # <<>>
        THEN ServiceName(type) \o ". " \o Join(summary_parts, ". ")
                \o (IF total > 0
                    THEN " Total cost: Rs" \o Format2f(total) ELSE "")
        ELSE ServiceName(type) \o " performed"

(***************************************************************************)
(* Transcripts the engine is called with                                   *)
(***************************************************************************)
MaxBlank == 2      \* whitespace-only transcripts have 0..MaxBlank blanks
MaxQty == 2        \* stated quantities range over 0..MaxQty

Blank(n) == SubSeq("                ", 1, n)

\* the scenarios of the repository's own tests, and a bare number
Scenarios ==
    {"Changed oil filter and engine oil for 1200 rupees at 15000 km",
     "Replaced brake pads front and rear, total 3000 rupees",
     "Full service with air filter, oil filter, engine oil change. 2500 rupees",
     "Changed engine oil and oil filter for 1500 rupees. Odometer 25000 km.",
     "5000000", "hello"}

BlankTranscripts == {Blank(n) : n \in 0..MaxBlank}

QuantityWords ==
    {ToStr(n) \o " " : n \in 0..MaxQty} \cup {"", "all ", "both front ", "500 "}
QuantityTranscripts ==
    {a \o q \o p : a \in {"Replaced "}, q \in QuantityWords,
                   p \in {"tires", "brake pads", "battery"}}
        \cup {"Fixed the battery and replaced the battery",
              "Fixed front pads and brake pad",
              "Repaired 2 brake pads all four",
              "New tyre, balancing done"}

CostTranscripts ==
    {k \o a : k \in {"Labor ", "Parts Rs ", "Total "},
              a \in {"5", "10", "1200.50", "1000000", "1000001"}}

OdometerTranscripts ==
    {"Oil change at " \o n \o " km" :
        n \in {"999", "1000", "500000", "500001", "1234567"}}

\* transcripts that name one or several service types
ServiceTranscripts ==
    {"Emergency service", "Emergency breakdown", "Under warranty",
     "Brake check", "Fixed broken mirror", "Warranty repair check"}

\* two different amounts, the larger one first
TotalTranscripts == {"Total 800 cost 500"}

\* a repaired part and a labor cost, no total
EstimateTranscripts == {"Repaired battery work fee 20"}

\* a part that is replaced and a common-with partner that is only checked
ContextTranscripts == {"Brake fluid checked. Replaced brake pads"}

\* an out-of-range reading ahead of an in-range one, both for one pattern
HiddenOdometerTranscripts == {"Odometer 999. Odometer 25000"}

\* a part without a number next to a counted part of another kind
CrossQuantityTranscripts == {"Replaced battery and 4 tires"}

Transcripts ==
    Scenarios \cup BlankTranscripts \cup QuantityTranscripts
        \cup CostTranscripts \cup OdometerTranscripts
        \cup ServiceTranscripts \cup TotalTranscripts
        \cup EstimateTranscripts \cup ContextTranscripts
        \cup HiddenOdometerTranscripts \cup CrossQuantityTranscripts

(***************************************************************************)
(* process_transcript as a state machine: one action per statement of the  *)
(* method, pc naming the statement that runs next.  stages records the     *)
(* statements the current call has run.                                    *)
(***************************************************************************)
VARIABLES pc, transcript, preprocessed_text, service_type, parts_replaced,
          parts_repaired, labor_cost, parts_cost, total_cost, odometer,
          date_info, confidence, work_summary, result, stages

vars == <<pc, transcript, preprocessed_text, service_type, parts_replaced,
          parts_repaired, labor_cost, parts_cost, total_cost, odometer,
          date_info, confidence, work_summary, result, stages, other,
          db>>

locals == <<preprocessed_text, service_type, parts_replaced, parts_repaired,
            labor_cost, parts_cost, total_cost, odometer, date_info,
            confidence, work_summary>>

\* no call in progress: the engine keeps nothing but its catalogs
Idle ==
    /\ pc = "idle"
    /\ transcript = ""
    /\ preprocessed_text = ""
    /\ service_type = ""
    /\ parts_replaced = <<>>
    /\ parts_repaired = <<>>
    /\ labor_cost = 0
    /\ parts_cost = 0
    /\ total_cost = 0
    /\ odometer = None
    /\ date_info = EmptyDict
    /\ confidence = 0
    /\ work_summary = ""
    /\ result = None
    /\ stages = <<>>

\* the frame of a call that has not started
IdleFrame ==
    [pc |-> "idle", transcript |-> "", preprocessed_text |-> "",
     service_type |-> "", parts_replaced |-> <<>>, parts_repaired |-> <<>>,
     labor_cost |-> 0, parts_cost |-> 0, total_cost |-> 0, odometer |-> None,
     date_info |-> EmptyDict, confidence |-> 0, work_summary |-> "",
     result |-> None, stages |-> <<>>]

\* a column without a value (None)
NULL == 0

\* the accounts of the seeded database: an administrator, two mechanics and
\* a vehicle owner
USERS ==
    {[id |-> 1, role |-> "admin"], [id |-> 2, role |-> "mechanic"],
     [id |-> 3, role |-> "mechanic"], [id |-> 4, role |-> "owner"]}

\* the seeded vehicle, owned by user 4 and not serviced yet
VEHICLES ==
    {[id |-> 1, owner_id |-> 4, last_service_date |-> NULL,
      next_service_date |-> NULL]}

\* a server process that is between two requests
NoCall == [pc |-> "idle", current_user |-> NULL, vehicle_id |-> NULL,
           owner_id |-> NULL]

\* the tables as seeded: no service record, no access request, no response
\* sent, and two server processes between requests
EmptyDb ==
    [vehicle |-> VEHICLES,
     servicerecord |-> {}, servicerecord_id |-> 0,
     vehicle_access_request |-> {}, vehicle_access_request_id |-> 0,
     now |-> 0,
     response |-> [op |-> "", role |-> "", id |-> NULL, code |-> 0],
     calls |-> <<NoCall, NoCall>>]

Init == Idle /\ other = IdleFrame /\ db = EmptyDb

Ran(stage) == stages' = Append(stages, stage)

\* the caller invokes process_transcript(t)
Call ==
    /\ pc = "idle"
    /\ \E t \in Transcripts : transcript' = t
    /\ pc' = "entry"
    /\ UNCHANGED <<db, other, locals, result, stages>>

\* bug variant: the strip() test is missing
IsEmptyTranscript_no_strip(t) == t = ""

\* "if not transcript or not transcript.strip()"
IsEmptyTranscript(t) == t = "" \/ Strip(t) = ""

EmptyResult(t) ==
    [transcript |-> t,
     service_type |-> "regular_service",
     parts_replaced |-> <<>>,
     parts_repaired |-> <<>>,
     labor_cost |-> 0,
     parts_cost |-> 0,
     total_cost |-> 0,
     odometer_reading |-> None,
     date_info |-> EmptyDict,
     work_summary |-> "No transcript provided",
     confidence_score |-> 0,
     parsed_successfully |-> FALSE,
     raw_parts_found |-> <<>>]

ReturnEmpty ==
    /\ pc = "entry"
    /\ IsEmptyTranscript(transcript)
    /\ result' = Some(EmptyResult(transcript))
    /\ pc' = "returned"
    /\ UNCHANGED <<db, other, transcript, locals, stages>>

Preprocess ==
    /\ pc = "entry"
    /\ ~IsEmptyTranscript(transcript)
    /\ preprocessed_text' = preprocess_text(Lower(transcript))
    /\ pc' = "service_type"
    /\ Ran("preprocess")
    /\ UNCHANGED <<db, other, transcript, service_type, parts_replaced, parts_repaired,
                   labor_cost, parts_cost, total_cost, odometer, date_info,
                   confidence, work_summary, result>>

ExtractServiceType ==
    /\ pc = "service_type"
    /\ service_type' = extract_service_type(preprocessed_text)
    /\ pc' = "parts_replaced"
    /\ Ran("service_type")
    /\ UNCHANGED <<db, other, transcript, preprocessed_text, parts_replaced,
                   parts_repaired, labor_cost, parts_cost, total_cost,
                   odometer, date_info, confidence, work_summary, result>>

\* parts_replaced = self._extract_parts_with_improved_detection(text, 'replaced')
DetectReplaced ==
    /\ pc = "parts_replaced"
    /\ \E r \in {extract_parts_with_improved_detection(preprocessed_text,
                                                      "replaced")} :
           IF r.raised
           THEN pc' = "raised" /\ UNCHANGED parts_replaced
           ELSE pc' = "parts_repaired" /\ parts_replaced' = r.parts
    /\ Ran("detect_replaced")
    /\ UNCHANGED <<db, other, transcript, preprocessed_text, service_type,
                   parts_repaired, labor_cost, parts_cost, total_cost,
                   odometer, date_info, confidence, work_summary, result>>

\* parts_repaired = self._extract_parts_with_improved_detection(text, 'repaired')
DetectRepaired ==
    /\ pc = "parts_repaired"
    /\ \E r \in {extract_parts_with_improved_detection(preprocessed_text,
                                                      "repaired")} :
           IF r.raised
           THEN pc' = "raised" /\ UNCHANGED parts_repaired
           ELSE pc' = "comma_parts" /\ parts_repaired' = r.parts
    /\ Ran("detect_repaired")
    /\ UNCHANGED <<db, other, transcript, preprocessed_text, service_type,
                   parts_replaced, labor_cost, parts_cost, total_cost,
                   odometer, date_info, confidence, work_summary, result>>

\* parts_replaced.extend(self._extract_comma_separated_parts(text))
ExtractCommaParts ==
    /\ pc = "comma_parts"
    /\ \E r \in {extract_comma_separated_parts(preprocessed_text)} :
           IF r.raised
           THEN pc' = "raised" /\ UNCHANGED parts_replaced
           ELSE pc' = "context_parts"
                /\ parts_replaced' = parts_replaced \o r.parts
    /\ Ran("comma_parts")
    /\ UNCHANGED <<db, other, transcript, preprocessed_text, service_type,
                   parts_repaired, labor_cost, parts_cost, total_cost,
                   odometer, date_info, confidence, work_summary, result>>

\* parts_replaced.extend(self._apply_context_rules(text, parts_replaced))
ApplyContextRules ==
    /\ pc = "context_parts"
    /\ parts_replaced' = parts_replaced
            \o apply_context_rules(preprocessed_text, parts_replaced)
    /\ pc' = "implied_parts"
    /\ Ran("context_parts")
    /\ UNCHANGED <<db, other, transcript, preprocessed_text, service_type,
                   parts_repaired, labor_cost, parts_cost, total_cost,
                   odometer, date_info, confidence, work_summary, result>>

\* parts_replaced.extend(self._extract_implied_parts(text))
ExtractImpliedParts ==
    /\ pc = "implied_parts"
    /\ parts_replaced' = parts_replaced
            \o extract_implied_parts(preprocessed_text)
    /\ pc' = "dedupe"
    /\ Ran("implied_parts")
    /\ UNCHANGED <<db, other, transcript, preprocessed_text, service_type,
                   parts_repaired, labor_cost, parts_cost, total_cost,
                   odometer, date_info, confidence, work_summary, result>>

RemoveDuplicates ==
    /\ pc = "dedupe"
    /\ parts_replaced' = remove_duplicate_parts(parts_replaced)
    /\ parts_repaired' = remove_duplicate_parts(parts_repaired)
    /\ pc' = "costs"
    /\ Ran("dedupe")
    /\ UNCHANGED <<db, other, transcript, preprocessed_text, service_type, labor_cost,
                   parts_cost, total_cost, odometer, date_info, confidence,
                   work_summary, result>>

ExtractCosts ==
    /\ pc = "costs"
    /\ labor_cost' = extract_cost(preprocessed_text, labor_keywords)
    /\ parts_cost' = extract_cost(preprocessed_text, parts_keywords)
    /\ total_cost' = extract_total_cost(preprocessed_text)
    /\ pc' = "odometer"
    /\ Ran("costs")
    /\ UNCHANGED <<db, other, transcript, preprocessed_text, service_type,
                   parts_replaced, parts_repaired, odometer, date_info,
                   confidence, work_summary, result>>

ExtractOdometer ==
    /\ pc = "odometer"
    /\ odometer' = extract_odometer(preprocessed_text)
    /\ pc' = "date_info"
    /\ Ran("odometer")
    /\ UNCHANGED <<db, other, transcript, preprocessed_text, service_type,
                   parts_replaced, parts_repaired, labor_cost, parts_cost,
                   total_cost, date_info, confidence, work_summary, result>>

ExtractDateInfo ==
    /\ pc = "date_info"
    /\ date_info' = extract_date_info(preprocessed_text)
    /\ pc' = "confidence"
    /\ Ran("date_info")
    /\ UNCHANGED <<db, other, transcript, preprocessed_text, service_type,
                   parts_replaced, parts_repaired, labor_cost, parts_cost,
                   total_cost, odometer, confidence, work_summary, result>>

\* bug variant: the score is computed on the total after the estimate
CalculateConfidence_on_estimate ==
    /\ pc = "confidence"
    /\ confidence' = calculate_improved_confidence(preprocessed_text,
            parts_replaced, parts_repaired,
            IF total_cost = 0 /\ (parts_replaced # <<>> \/ parts_repaired # <<>>)
            THEN estimate_cost(parts_replaced, parts_repaired, labor_cost)
            ELSE total_cost,
            odometer)
    /\ pc' = "summary"
    /\ Ran("confidence")
    /\ UNCHANGED <<db, other, transcript, preprocessed_text, service_type,
                   parts_replaced, parts_repaired, labor_cost, parts_cost,
                   total_cost, odometer, date_info, work_summary, result>>

CalculateConfidence ==
    /\ pc = "confidence"
    /\ confidence' = calculate_improved_confidence(preprocessed_text,
            parts_replaced, parts_repaired, total_cost, odometer)
    /\ pc' = "summary"
    /\ Ran("confidence")
    /\ UNCHANGED <<db, other, transcript, preprocessed_text, service_type,
                   parts_replaced, parts_repaired, labor_cost, parts_cost,
                   total_cost, odometer, date_info, work_summary, result>>

GenerateSummary ==
    /\ pc = "summary"
    /\ work_summary' = generate_detailed_work_summary(parts_replaced,
            parts_repaired, service_type, total_cost)
    /\ pc' = "estimate"
    /\ Ran("summary")
    /\ UNCHANGED <<db, other, transcript, preprocessed_text, service_type,
                   parts_replaced, parts_repaired, labor_cost, parts_cost,
                   total_cost, odometer, date_info, confidence, result>>

\* "if total_cost == 0 and (parts_replaced or parts_repaired)"
EstimateCost ==
    /\ pc = "estimate"
    /\ total_cost' =
            IF total_cost = 0 /\ (parts_replaced # <<>> \/ parts_repaired # <<>>)
            THEN estimate_cost(parts_replaced, parts_repaired, labor_cost)
            ELSE total_cost
    /\ pc' = "assemble"
    /\ Ran("estimate")
    /\ UNCHANGED <<db, other, transcript, preprocessed_text, service_type,
                   parts_replaced, parts_repaired, labor_cost, parts_cost,
                   odometer, date_info, confidence, work_summary, result>>

\* bug variant: the base score itself counts as parsed
ParsedSuccessfully_at_base(score) == score >= 30

\* "'parsed_successfully': confidence > 0.3"
ParsedSuccessfully(score) == score > 30

\* the dictionary of the final return statement
AssembledResult ==
    [transcript |-> transcript,
     service_type |-> service_type,
     parts_replaced |-> parts_replaced,
     parts_repaired |-> parts_repaired,
     labor_cost |-> labor_cost,
     parts_cost |-> parts_cost,
     total_cost |-> IF total_cost # 0 THEN total_cost
                    ELSE labor_cost + parts_cost,
     odometer_reading |-> odometer,
     date_info |-> date_info,
     work_summary |-> work_summary,
     confidence_score |-> confidence,
     parsed_successfully |-> ParsedSuccessfully(confidence),
     raw_parts_found |-> [k \in 1..Len(parts_replaced) |->
                            parts_replaced[k].name]]

Return ==
    /\ pc = "assemble"
    /\ result' = Some(AssembledResult)
    /\ pc' = "returned"
    /\ Ran("assemble")
    /\ UNCHANGED <<db, other, transcript, locals>>

\* the caller has taken the result (or the exception); the call's locals die
Finish ==
    /\ pc \in {"returned", "raised"}
    /\ pc' = "idle"
    /\ transcript' = ""
    /\ preprocessed_text' = ""
    /\ service_type' = ""
    /\ parts_replaced' = <<>>
    /\ parts_repaired' = <<>>
    /\ labor_cost' = 0
    /\ parts_cost' = 0
    /\ total_cost' = 0
    /\ odometer' = None
    /\ date_info' = EmptyDict
    /\ confidence' = 0
    /\ work_summary' = ""
    /\ result' = None
    /\ stages' = <<>>
    /\ UNCHANGED <<db, other>>

(***************************************************************************)
(* Two calls on the shared engine.  Python runs one thread at a time and   *)
(* may switch threads between any two statements: Switch suspends the      *)
(* running call and resumes the other one.  A statement reads and writes   *)
(* the locals of its own call and reads the catalogs; no statement of the  *)
(* class assigns an attribute of self or an entry of a catalog.            *)
(***************************************************************************)
Frame ==
    [pc |-> pc, transcript |-> transcript,
     preprocessed_text |-> preprocessed_text, service_type |-> service_type,
     parts_replaced |-> parts_replaced, parts_repaired |-> parts_repaired,
     labor_cost |-> labor_cost, parts_cost |-> parts_cost,
     total_cost |-> total_cost, odometer |-> odometer,
     date_info |-> date_info, confidence |-> confidence,
     work_summary |-> work_summary, result |-> result, stages |-> stages]

Switch ==
    /\ other' = Frame
    /\ pc' = other.pc
    /\ transcript' = other.transcript
    /\ preprocessed_text' = other.preprocessed_text
    /\ service_type' = other.service_type
    /\ parts_replaced' = other.parts_replaced
    /\ parts_repaired' = other.parts_repaired
    /\ labor_cost' = other.labor_cost
    /\ parts_cost' = other.parts_cost
    /\ total_cost' = other.total_cost
    /\ odometer' = other.odometer
    /\ date_info' = other.date_info
    /\ confidence' = other.confidence
    /\ work_summary' = other.work_summary
    /\ result' = other.result
    /\ stages' = other.stages
    /\ UNCHANGED db

\* the requests the two callers send: a blank one, two that return parts
\* and one that raises
SharedTranscripts ==
    {" ", "Replaced 2 tires", "Replaced both front tires", "Replaced battery"}

CallShared ==
    /\ pc = "idle"
    /\ \E t \in SharedTranscripts : transcript' = t
    /\ pc' = "entry"
    /\ UNCHANGED <<db, other, locals, result, stages>>

(***************************************************************************)
(* process_transcript as a function of its own frame: StepFrame(f) is the  *)
(* frame after the next statement of the call whose frame is f, when that  *)
(* call runs alone.  A call run alone goes from Entered(t) through the     *)
(* iterates of StepFrame to its return or its exception.                   *)
(***************************************************************************)
Entered(t) == [IdleFrame EXCEPT !.pc = "entry", !.transcript = t]

\* a strategy's outcome r appended to the list named field
WithParts(f, r, field, next, stage) ==
    IF r.raised
    THEN [f EXCEPT !.pc = "raised", !.stages = Append(@, stage)]
    ELSE [f EXCEPT ![field] = @ \o r.parts, !.pc = next,
                   !.stages = Append(@, stage)]

\* the dictionary of the final return statement, from a frame
AssembledFrom(f) ==
    [transcript |-> f.transcript,
     service_type |-> f.service_type,
     parts_replaced |-> f.parts_replaced,
     parts_repaired |-> f.parts_repaired,
     labor_cost |-> f.labor_cost,
     parts_cost |-> f.parts_cost,
     total_cost |-> IF f.total_cost # 0 THEN f.total_cost
                    ELSE f.labor_cost + f.parts_cost,
     odometer_reading |-> f.odometer,
     date_info |-> f.date_info,
     work_summary |-> f.work_summary,
     confidence_score |-> f.confidence,
     parsed_successfully |-> ParsedSuccessfully(f.confidence),
     raw_parts_found |-> [k \in 1..Len(f.parts_replaced) |->
                            f.parts_replaced[k].name]]

StepFrame(f) ==
    CASE f.pc = "entry" ->
            IF IsEmptyTranscript(f.transcript)
            THEN [f EXCEPT !.result = Some(EmptyResult(f.transcript)),
                           !.pc = "returned"]
            ELSE [f EXCEPT !.preprocessed_text =
                                preprocess_text(Lower(f.transcript)),
                           !.pc = "service_type",
                           !.stages = Append(@, "preprocess")]
      [] f.pc = "service_type" ->
            [f EXCEPT !.service_type = extract_service_type(f.preprocessed_text),
                      !.pc = "parts_replaced",
                      !.stages = Append(@, "service_type")]
      [] f.pc = "parts_replaced" ->
            WithParts(f, extract_parts_with_improved_detection(
                            f.preprocessed_text, "replaced"),
                      "parts_replaced", "parts_repaired", "detect_replaced")
      [] f.pc = "parts_repaired" ->
            WithParts(f, extract_parts_with_improved_detection(
                            f.preprocessed_text, "repaired"),
                      "parts_repaired", "comma_parts", "detect_repaired")
      [] f.pc = "comma_parts" ->
            WithParts(f, extract_comma_separated_parts(f.preprocessed_text),
                      "parts_replaced", "context_parts", "comma_parts")
      [] f.pc = "context_parts" ->
            [f EXCEPT !.parts_replaced =
                            @ \o apply_context_rules(f.preprocessed_text, @),
                      !.pc = "implied_parts",
                      !.stages = Append(@, "context_parts")]
      [] f.pc = "implied_parts" ->
            [f EXCEPT !.parts_replaced =
                            @ \o extract_implied_parts(f.preprocessed_text),
                      !.pc = "dedupe",
                      !.stages = Append(@, "implied_parts")]
      [] f.pc = "dedupe" ->
            [f EXCEPT !.parts_replaced = remove_duplicate_parts(@),
                      !.parts_repaired = remove_duplicate_parts(@),
                      !.pc = "costs",
                      !.stages = Append(@, "dedupe")]
      [] f.pc = "costs" ->
            [f EXCEPT !.labor_cost =
                            extract_cost(f.preprocessed_text, labor_keywords),
                      !.parts_cost =
                            extract_cost(f.preprocessed_text, parts_keywords),
                      !.total_cost = extract_total_cost(f.preprocessed_text),
                      !.pc = "odometer",
                      !.stages = Append(@, "costs")]
      [] f.pc = "odometer" ->
            [f EXCEPT !.odometer = extract_odometer(f.preprocessed_text),
                      !.pc = "date_info",
                      !.stages = Append(@, "odometer")]
      [] f.pc = "date_info" ->
            [f EXCEPT !.date_info = extract_date_info(f.preprocessed_text),
                      !.pc = "confidence",
                      !.stages = Append(@, "date_info")]
      [] f.pc = "confidence" ->
            [f EXCEPT !.confidence = calculate_improved_confidence(
                            f.preprocessed_text, f.parts_replaced,
                            f.parts_repaired, f.total_cost, f.odometer),
                      !.pc = "summary",
                      !.stages = Append(@, "confidence")]
      [] f.pc = "summary" ->
            [f EXCEPT !.work_summary = generate_detailed_work_summary(
                            f.parts_replaced, f.parts_repaired,
                            f.service_type, f.total_cost),
                      !.pc = "estimate",
                      !.stages = Append(@, "summary")]
      [] f.pc = "estimate" ->
            [f EXCEPT !.total_cost =
                            IF @ = 0 /\ (f.parts_replaced # <<>>
                                            \/ f.parts_repaired # <<>>)
                            THEN estimate_cost(f.parts_replaced,
                                               f.parts_repaired, f.labor_cost)
                            ELSE @,
                      !.pc = "assemble",
                      !.stages = Append(@, "estimate")]
      [] f.pc = "assemble" ->
            [f EXCEPT !.result = Some(AssembledFrom(f)),
                      !.pc = "returned",
                      !.stages = Append(@, "assemble")]
      [] OTHER -> f

Next ==
    \/ Call
    \/ ReturnEmpty
    \/ Preprocess
    \/ ExtractServiceType
    \/ DetectReplaced
    \/ DetectRepaired
    \/ ExtractCommaParts
    \/ ApplyContextRules
    \/ ExtractImpliedParts
    \/ RemoveDuplicates
    \/ ExtractCosts
    \/ ExtractOdometer
    \/ ExtractDateInfo
    \/ CalculateConfidence
    \/ GenerateSummary
    \/ EstimateCost
    \/ Return
    \/ Finish

Spec == Init /\ [][Next]_vars

NextShared ==
    \/ CallShared
    \/ ReturnEmpty
    \/ Preprocess
    \/ ExtractServiceType
    \/ DetectReplaced
    \/ DetectRepaired
    \/ ExtractCommaParts
    \/ ApplyContextRules
    \/ ExtractImpliedParts
    \/ RemoveDuplicates
    \/ ExtractCosts
    \/ ExtractOdometer
    \/ ExtractDateInfo
    \/ CalculateConfidence
    \/ GenerateSummary
    \/ EstimateCost
    \/ Return
    \/ Finish
    \/ Switch

SpecShared == Init /\ [][NextShared]_vars

(***************************************************************************)
(* Properties                                                              *)
(***************************************************************************)
Returned_ == pc = "returned" /\ result # None
Result == result[1]

BrakeScenario == "Replaced brake pads front and rear, total 3000 rupees"
OilScenario == "Changed oil filter and engine oil for 1200 rupees at 15000 km"
FullServiceScenario ==
    "Full service with air filter, oil filter, engine oil change. 2500 rupees"

HasName(parts, name) == \E k \in 1..Len(parts) : parts[k].name = name
NoDuplicateIds(parts) ==
    \A i, j \in 1..Len(parts) : parts[i].id = parts[j].id => i = j

\* C1: process_transcript never raises, whatever the transcript (stated as
\* the claim states it; the code violates it).
C1_NeverRaises == pc # "raised"

\* C2: an empty or whitespace-only transcript is answered at once, with the
\* default result and without any stage of the pipeline having run.
C2_EmptyShortCircuit ==
    Strip(transcript) = "" =>
        /\ stages = <<>>
        /\ pc = "returned" =>
            /\ result # None
            /\ Result.service_type = "regular_service"
            /\ Result.parts_replaced = <<>>
            /\ Result.parts_repaired = <<>>
            /\ Result.labor_cost = 0
            /\ Result.parts_cost = 0
            /\ Result.total_cost = 0
            /\ Result.odometer_reading = None
            /\ Result.confidence_score = 0
            /\ Result.parsed_successfully = FALSE

\* a whitespace-only transcript has been answered
C2_Witness == Returned_ /\ transcript = Blank(MaxBlank) /\ MaxBlank > 0

\* C3: the confidence of every result lies in [0, 1]: 0 for an empty
\* transcript, otherwise at least the base 0.3 and at most 1.0.
C3_ConfidenceRange ==
    Returned_ =>
        /\ Result.confidence_score >= 0
        /\ Result.confidence_score <= 100
        /\ Strip(transcript) = "" => Result.confidence_score = 0
        /\ Strip(transcript) # "" => Result.confidence_score >= 30

\* a result whose bonuses add up to more than 1.0 is returned with 1.0
C3_Witness ==
    /\ Returned_
    /\ Result.confidence_score = 100
    /\ ConfidenceSum(preprocessed_text, Result.parts_replaced,
                     Result.parts_repaired, extract_total_cost(preprocessed_text),
                     Result.odometer_reading) > 100

\* C4: the odometer reading of every result is null or within [1000, 500000].
C4_OdometerRange ==
    /\ odometer # None => 1000 <= odometer[1] /\ odometer[1] <= 500000
    /\ Returned_ =>
        \/ Result.odometer_reading = None
        \/ /\ 1000 <= Result.odometer_reading[1]
           /\ Result.odometer_reading[1] <= 500000

\* a transcript that states a reading below the range is answered with null
C4_Witness ==
    /\ Returned_
    /\ transcript = "Oil change at 999 km"
    /\ Result.odometer_reading = None

\* C5: neither parts_replaced nor parts_repaired of a result lists a part
\* identifier twice.
C5_NoDuplicateParts ==
    /\ Returned_ =>
        /\ NoDuplicateIds(Result.parts_replaced)
        /\ NoDuplicateIds(Result.parts_repaired)
    /\ pc \in {"costs", "odometer", "date_info", "confidence", "summary",
               "estimate", "assemble"} =>
        /\ NoDuplicateIds(parts_replaced)
        /\ NoDuplicateIds(parts_repaired)

\* a result whose lists were longer before deduplication, both of them
C5_Witness ==
    /\ pc = "costs"
    /\ Len(parts_repaired)
         < Len(extract_parts_with_improved_detection(preprocessed_text,
                                                     "repaired").parts)
    /\ parts_repaired # <<>>

\* C6: every cost of a result is 0.0 or within [10, 1000000] (stated as the
\* claim states it; the code violates it).
AmountOrZero(amount) == amount = 0 \/ ReasonableAmount(amount)
C6_CostsInRange ==
    Returned_ =>
        /\ AmountOrZero(Result.labor_cost)
        /\ AmountOrZero(Result.parts_cost)
        /\ AmountOrZero(Result.total_cost)

\* C7: every part of a result has a quantity of at least 1 (stated as the
\* claim states it; the code violates it).
C7_PositiveQuantity ==
    Returned_ =>
        /\ \A k \in 1..Len(Result.parts_replaced) :
                Result.parts_replaced[k].quantity >= 1
        /\ \A k \in 1..Len(Result.parts_repaired) :
                Result.parts_repaired[k].quantity >= 1

\* C8: the brake scenario is answered with Brake Pads in quantity 2 and a
\* total of 3000 (stated as the claim states it; the call raises instead).
C8_BrakeScenario ==
    (transcript = BrakeScenario /\ pc \in {"returned", "raised"}) =>
        /\ Returned_
        /\ \E k \in 1..Len(Result.parts_replaced) :
                /\ Result.parts_replaced[k].name = "Brake Pads"
                /\ Result.parts_replaced[k].quantity = 2
        /\ Result.total_cost = 3000 * 100

\* C9: the oil scenario is answered with Engine Oil and Oil Filter among the
\* replaced parts, a total of 1200 and an odometer reading of 15000.
C9_OilScenario ==
    (transcript = OilScenario /\ pc \in {"returned", "raised"}) =>
        /\ Returned_
        /\ HasName(Result.parts_replaced, "Engine Oil")
        /\ HasName(Result.parts_replaced, "Oil Filter")
        /\ Result.total_cost = 1200 * 100
        /\ Result.odometer_reading = Some(15000)

C9_Witness == Returned_ /\ transcript = OilScenario

\* C10: the full-service scenario is answered with Air Filter, Oil Filter
\* and Engine Oil among the replaced parts and a total of 2500.
C10_FullServiceScenario ==
    (transcript = FullServiceScenario /\ pc \in {"returned", "raised"}) =>
        /\ Returned_
        /\ HasName(Result.parts_replaced, "Air Filter")
        /\ HasName(Result.parts_replaced, "Oil Filter")
        /\ HasName(Result.parts_replaced, "Engine Oil")
        /\ Result.total_cost = 2500 * 100

C10_Witness ==
    /\ Returned_
    /\ transcript = FullServiceScenario
    /\ \E k \in 1..Len(Result.parts_replaced) :
            Result.parts_replaced[k].detection_method = "comma_list"

(***************************************************************************)
(* Two calls: determinism and concurrency (under SpecShared)               *)
(***************************************************************************)
Ended(f) == f.pc \in {"returned", "raised"}

PartKeys ==
    {"id", "name", "category", "estimated_price", "action", "quantity",
     "detection_method"}
FreshParts(parts) == \A k \in 1..Len(parts) : DOMAIN parts[k] = PartKeys
SafeFrame(f) ==
    /\ f.pc = "idle" => f = IdleFrame
    /\ FreshParts(f.parts_replaced) /\ FreshParts(f.parts_repaired)
    /\ f.result # None => /\ FreshParts(f.result[1].parts_replaced)
                          /\ FreshParts(f.result[1].parts_repaired)
\* one step of two calls on the engine: the running call is suspended for
\* the other one, or it starts, ends, or runs its next statement exactly as
\* it does alone, and the suspended call is left as it is
AloneStep ==
    \/ other' = Frame /\ Frame' = other
    \/ /\ other' = other
       /\ \/ pc = "idle" /\ Frame' = Entered(transcript')
          \/ Ended(Frame) /\ Frame' = IdleFrame
          \/ ~Ended(Frame) /\ pc # "idle" /\ Frame' = StepFrame(Frame)

\* two calls of the same transcript that stand before the same statement
\* have the same locals, however their statements were interleaved
SameCallSameFrame == (transcript = other.transcript /\ pc = other.pc) => Frame = other

ServiceTypeTags ==
    {"regular_service", "repair", "inspection", "emergency", "warranty",
     "custom"}

\* C12: the service_type of every result is one tag of the closed set
\* {regular_service, repair, inspection, emergency, warranty, custom}.
C12_ServiceTypeClosed ==
    /\ Returned_ => Result.service_type \in ServiceTypeTags
    /\ (pc \notin {"idle", "entry", "service_type", "returned", "raised"})
            => service_type \in ServiceTypeTags

C12_Witness ==
    /\ Returned_
    /\ transcript = "Under warranty"
    /\ Result.service_type = "warranty"

\* C13: parsed_successfully is true exactly when confidence_score > 0.3; a
\* non-empty transcript scoring the bare base 0.3 is not parsed successfully,
\* and a result with at least one detected part is.
C13_ParsedIffConfident ==
    Returned_ =>
        /\ Result.parsed_successfully <=> (Result.confidence_score > 30)
        /\ (~IsEmptyTranscript(transcript) /\ Result.confidence_score = 30)
                => ~Result.parsed_successfully
        /\ (Result.parts_replaced # <<>> \/ Result.parts_repaired # <<>>)
                => Result.parsed_successfully

\* "hello" earns no bonus: its score is the base and it is not parsed
C13_Witness ==
    /\ Returned_
    /\ transcript = "hello"
    /\ Result.confidence_score = 30
    /\ Result.parts_replaced = <<>>
    /\ ~Result.parsed_successfully

\* the amounts one cost pattern finds anywhere in the text
AmountsOfPattern(pattern, text_lower) ==
    {ToCents(FindAll(pattern, text_lower)[j]) :
        j \in 1..Len(FindAll(pattern, text_lower))}

\* every amount some cost pattern finds
AmountsFound(text_lower) ==
    UNION {AmountsOfPattern(compiled_patterns.cost[k].re, text_lower) :
            k \in 1..Len(compiled_patterns.cost)}

\* the amounts within [10, 1000000]
ValidAmounts(text_lower) ==
    {amount \in AmountsFound(text_lower) :
        10 * 100 <= amount /\ amount <= 1000000 * 100}

\* the statements of the call between _extract_total_cost and _estimate_cost
AfterCosts == {"odometer", "date_info", "confidence", "summary", "estimate"}

\* C15: the extracted total cost is the largest of the amounts that the cost
\* patterns find anywhere in the text and that lie in [10, 1000000] (the
\* amount itself if there is one only), and 0.0 if there is none; the bare
\* text "5000000" is answered with total_cost 0.
C15_TotalCostIsLargestValid ==
    /\ pc \in AfterCosts =>
            \A valid \in {ValidAmounts(Lower(preprocessed_text))} :
                /\ valid = {} => total_cost = 0
                /\ valid # {} => /\ total_cost \in valid
                                 /\ \A amount \in valid : amount <= total_cost
    /\ (Returned_ /\ transcript = "5000000") => Result.total_cost = 0

\* two valid amounts, 800 and 500: the larger is the total
C15_Witness ==
    /\ pc = "odometer"
    /\ transcript = "Total 800 cost 500"
    /\ ValidAmounts(Lower(preprocessed_text)) = {800 * 100, 500 * 100}
    /\ total_cost = 800 * 100

\* the parts subtotal of the estimate: full price for a replaced part, half
\* price for a repaired one, times the quantity
PartsSubtotal(replaced, repaired) ==
    SumPrices(replaced, 1, 100) + SumPrices(repaired, 1, 50)

\* the estimate as specified: the labor that was found, or else the greater
\* of 30% of the parts subtotal and 500
SpecifiedEstimate(replaced, repaired, labor) ==
    PartsSubtotal(replaced, repaired)
        + (IF labor # 0 THEN labor
           ELSE Max((PartsSubtotal(replaced, repaired) * 3) \div 10, 500 * 100))

\* C16: the estimate replaces the total exactly when the extracted total is
\* 0.0 and a part was detected, and then it is the parts subtotal (replaced
\* at full price, repaired at half price, times quantity) plus the extracted
\* labor cost or, without one, plus max(30% of the subtotal, 500).
C16_FallbackEstimate ==
    pc = "assemble" =>
        total_cost =
            IF /\ extract_total_cost(preprocessed_text) = 0
               /\ (parts_replaced # <<>> \/ parts_repaired # <<>>)
            THEN SpecifiedEstimate(parts_replaced, parts_repaired, labor_cost)
            ELSE extract_total_cost(preprocessed_text)

\* the same, for the calls in which every detected quantity is at least 1
FallbackEstimateForPositiveQuantities ==
    (/\ \A k \in 1..Len(parts_replaced) : parts_replaced[k].quantity >= 1
     /\ \A k \in 1..Len(parts_repaired) : parts_repaired[k].quantity >= 1)
        => C16_FallbackEstimate

\* the quality keywords that occur in the text as whole words
QualityKeywordsPresent(text) ==
    {w \in {"replaced", "changed", "service", "cost", "rupees", "km",
            "filter", "oil", "brake", "tire"} :
        Found(WordPattern(w), Lower(text))}

PartsBonus(parts_count) == Min(40, 15 * parts_count)
CostBonus(total) ==
    IF total = 0 THEN 0
    ELSE IF 100 * 100 <= total /\ total <= 100000 * 100 THEN 25 ELSE 20
OdometerBonus(reading) == IF reading = None THEN 0 ELSE 10
KeywordBonus(text) == Min(15, 2 * Cardinality(QualityKeywordsPresent(text)))
LengthBonus(text) ==
    IF WordCount(text) > 10 THEN 10 ELSE IF WordCount(text) > 5 THEN 5 ELSE 0
ActionWordBonus(text) ==
    IF \E w \in {"replaced", "changed", "fixed", "installed", "checked"} :
            Contains(Lower(text), w)
    THEN 5 ELSE 0
ContextWordBonus(text) ==
    IF \E w \in {"service", "maintenance", "repair", "inspection"} :
            Contains(Lower(text), w)
    THEN 5 ELSE 0

\* the statements of the call after _calculate_improved_confidence
AfterConfidence == {"summary", "estimate", "assemble", "returned"}

\* C17: the confidence of a non-empty transcript is, in hundredths,
\* min(100, 30 + min(40, 15 per part) + (20 if a total was extracted, 25 if it
\* lies in [100, 100000]) + (10 for an odometer reading) + min(15, 2 per
\* quality keyword present as a word) + (10 for more than 10 words, else 5
\* for more than 5) + (5 for an action word) + (5 for a service-context
\* word)); the total is the one extracted from the text, not the estimate.
C17_ConfidenceFormula ==
    /\ (pc \in AfterConfidence /\ ~IsEmptyTranscript(transcript)) =>
            confidence =
                Min(100,
                    30 + PartsBonus(Len(parts_replaced) + Len(parts_repaired))
                       + CostBonus(extract_total_cost(preprocessed_text))
                       + OdometerBonus(odometer)
                       + KeywordBonus(preprocessed_text)
                       + LengthBonus(preprocessed_text)
                       + ActionWordBonus(preprocessed_text)
                       + ContextWordBonus(preprocessed_text))
    /\ (Returned_ /\ ~IsEmptyTranscript(transcript)) =>
            Result.confidence_score = confidence

\* a battery replaced and no total in the text: the result carries the
\* estimate as total_cost, and the score has no cost bonus
C17_Witness ==
    /\ Returned_
    /\ transcript = "Replaced battery"
    /\ extract_total_cost(preprocessed_text) = 0
    /\ Result.total_cost = 3250 * 100
    /\ Result.confidence_score = 30 + 15 + 2 + 5

\* the order in which the classifier visits the categories
CategoryOrder ==
    <<"regular_service", "repair", "inspection", "emergency", "warranty">>

\* some pattern of the category matches, or some keyword occurs as a word
CategoryHits(category, text) ==
    \/ \E k \in 1..Len(SERVICE_TYPES[category].patterns) :
            Found(SERVICE_TYPES[category].patterns[k].re, text)
    \/ \E k \in 1..Len(SERVICE_TYPES[category].keywords) :
            Found(WordPattern(SERVICE_TYPES[category].keywords[k]), text)

\* the positions in CategoryOrder of the categories that hit
HitPositions(text) ==
    {k \in 1..Len(CategoryOrder) : CategoryHits(CategoryOrder[k], text)}

\* the fallbacks, applied when no category hits
FallbackCategory(text) ==
    IF \E w \in {"full service", "complete service", "major service"} :
            Contains(text, w)
    THEN "regular_service"
    ELSE IF \E w \in {"emergency", "breakdown", "stranded", "urgent"} :
                Contains(text, w)
         THEN "emergency"
         ELSE "regular_service"

\* the statements of the call after _extract_service_type
AfterServiceType ==
    {"parts_replaced", "parts_repaired", "comma_parts", "context_parts",
     "implied_parts", "dedupe", "costs", "odometer", "date_info",
     "confidence", "summary", "estimate", "assemble"}

\* C18: the service type is the first category, in the order regular_service,
\* repair, inspection, emergency, warranty, of which a pattern or a keyword
\* hits; only if none hits, the fallbacks decide ("full/complete/major
\* service" gives regular_service, then "emergency/breakdown/stranded/urgent"
\* gives emergency, else regular_service).  A text with "service" and
\* "emergency" is a regular_service.
C18_FirstCategoryWins ==
    /\ pc \in AfterServiceType =>
            \A hits \in {HitPositions(Lower(preprocessed_text))} :
                /\ hits # {} =>
                        \E k \in hits :
                            /\ \A j \in hits : k <= j
                            /\ service_type = CategoryOrder[k]
                /\ hits = {} =>
                        service_type = FallbackCategory(Lower(preprocessed_text))
    /\ (Returned_ /\ ~IsEmptyTranscript(transcript)) =>
            Result.service_type = service_type
    /\ (Returned_ /\ transcript = "Emergency service") =>
            Result.service_type = "regular_service"

\* "Emergency service" hits regular_service (1st) and emergency (4th)
C18_Witness ==
    /\ Returned_
    /\ transcript = "Emergency service"
    /\ HitPositions(Lower(preprocessed_text)) = {1, 4}
    /\ Result.service_type = "regular_service"

\* the candidates for parts_replaced, strategy after strategy: (1) pattern
\* and action, (2) lists, (3) context rules on (1) and (2), (4) implied
ReplacedCandidates(text) ==
    LET detected ==
            extract_parts_with_improved_detection(text, "replaced").parts
                \o extract_comma_separated_parts(text).parts
    IN  detected \o apply_context_rules(text, detected)
                 \o extract_implied_parts(text)

RepairedCandidates(text) ==
    extract_parts_with_improved_detection(text, "repaired").parts

\* the positions in parts of the first occurrence of each identifier
FirstOccurrences(parts) ==
    {k \in 1..Len(parts) : \A j \in 1..(k - 1) : parts[j].id # parts[k].id}

\* the n-th smallest member of a set of positions
NthOf(positions, n) ==
    CHOOSE k \in positions : Cardinality({j \in positions : j < k}) = n - 1

\* kept is candidates reduced to its first occurrences, in their order
KeepsFirstOccurrences(kept, candidates) ==
    /\ Len(kept) = Cardinality(FirstOccurrences(candidates))
    /\ \A n \in 1..Len(kept) :
            kept[n] = candidates[NthOf(FirstOccurrences(candidates), n)]

\* the statements of the call after the removal of duplicates
AfterDedupe ==
    {"costs", "odometer", "date_info", "confidence", "summary", "estimate",
     "assemble", "returned"}

\* C19: parts_replaced is the concatenation of the candidates of (1) pattern
\* and action, (2) list extraction, (3) context inference and (4) implied
\* patterns, reduced to the first occurrence of each part identifier with
\* its quantity and provenance unchanged, in the order of the first
\* occurrences; parts_repaired is reduced in the same way on its own.
C19_FirstOccurrenceKept ==
    /\ (pc \in AfterDedupe /\ ~IsEmptyTranscript(transcript)) =>
            /\ KeepsFirstOccurrences(parts_replaced,
                                     ReplacedCandidates(preprocessed_text))
            /\ KeepsFirstOccurrences(parts_repaired,
                                     RepairedCandidates(preprocessed_text))
    /\ (Returned_ /\ ~IsEmptyTranscript(transcript)) =>
            /\ Result.parts_replaced = parts_replaced
            /\ Result.parts_repaired = parts_repaired

\* a part found by two strategies that disagree on quantity or provenance
DisagreeingDuplicate(candidates) ==
    \E j, k \in 1..Len(candidates) :
        /\ j < k
        /\ candidates[j].id = candidates[k].id
        /\ candidates[j] # candidates[k]

C19_Witness ==
    /\ pc = "costs"
    /\ DisagreeingDuplicate(ReplacedCandidates(preprocessed_text))
    /\ Len(parts_replaced) > 1

\* the statements of the call after _apply_context_rules
AfterContextRules == {"implied_parts", "dedupe"} \cup AfterDedupe

\* the transcript names the part by its identifier
Mentions(text, part_id) == Contains(Lower(text), part_id)

\* C20: a common-with partner is added by rule (c) only if the transcript
\* does not contain the partner and the partner is not already detected: no
\* part of parts_replaced with the provenance common_combo is mentioned in
\* the transcript, and none occurs a second time.
C20_PartnerAddedOnlyIfAbsent ==
    pc \in AfterContextRules =>
        \A k \in 1..Len(parts_replaced) :
            parts_replaced[k].detection_method = "common_combo" =>
                /\ ~Mentions(transcript, parts_replaced[k].id)
                /\ \A j \in 1..Len(parts_replaced) :
                        parts_replaced[j].id = parts_replaced[k].id => j = k

\* the parts detected by strategies (1) and (2): the list that
\* _apply_context_rules is given
DetectedBeforeContext(text) ==
    extract_parts_with_improved_detection(text, "replaced").parts
        \o extract_comma_separated_parts(text).parts

\* parts begins with the entries of given, unchanged and in place, and what
\* follows them names no part of given and no part twice
OnlyAdds(parts, given) ==
    /\ Len(parts) >= Len(given)
    /\ \A k \in 1..Len(given) : parts[k] = given[k]
    /\ \A k \in (Len(given) + 1)..Len(parts) :
            /\ \A j \in 1..Len(given) : given[j].id # parts[k].id
            /\ \A j \in (Len(given) + 1)..Len(parts) :
                    parts[j].id = parts[k].id => j = k

\* C21: the context rules only add parts: once their output is appended,
\* parts_replaced begins with the entries detected before, each in its
\* position with its action, quantity and provenance, and the added entries
\* name no part that was already detected and no part twice.
C21_ContextRulesOnlyAdd ==
    pc = "implied_parts" =>
        OnlyAdds(parts_replaced, DetectedBeforeContext(preprocessed_text))

\* brake pads detected from the list, disc and fluid added behind them
C21_Witness ==
    /\ pc = "implied_parts"
    /\ transcript = "Brake fluid checked. Replaced brake pads"
    /\ Len(DetectedBeforeContext(preprocessed_text)) = 1
    /\ Len(parts_replaced) = 3
    /\ parts_replaced[1].detection_method = "comma_list"
    /\ parts_replaced[3].detection_method = "common_combo"

\* word occurs in text at position i
OccursAt(text, word, i) ==
    /\ i >= 1
    /\ i + Len(word) - 1 <= Len(text)
    /\ SubSeq(text, i, i + Len(word) - 1) = word

\* keyword occurs at position j as a whole word
WholeWordAt(text, keyword, j) ==
    /\ OccursAt(text, keyword, j)
    /\ ~IsWordAt(text, j - 1)
    /\ ~IsWordAt(text, j + Len(keyword))

\* an action keyword of the type occurs, white space follows it, and the
\* part's keyword follows as a whole word before the sentence ends
ActionNear(text, action_type, keyword) ==
    \E a \in 1..Len(ACTIONS_DICT[action_type].keywords) :
        \E i \in 1..Len(text) :
            /\ OccursAt(text, ACTIONS_DICT[action_type].keywords[a], i)
            /\ \E j \in (i + Len(ACTIONS_DICT[action_type].keywords[a]) + 1)
                            ..Len(text) :
                    /\ Ch(text, i + Len(ACTIONS_DICT[action_type].keywords[a]))
                            \in SPACES
                    /\ WholeWordAt(text, keyword, j)
                    /\ \A d \in (i + Len(ACTIONS_DICT[action_type].keywords[a]))
                                    ..(j - 1) : Ch(text, d) # "."

\* the part is one that strategy 1 may emit for the action type
EmittedWithAction(part, text, action_type) ==
    /\ part.action = action_type
    /\ part.id \in DOMAIN PARTS_DICT
    /\ \E k \in 1..Len(PARTS_DICT[part.id].patterns) :
            /\ PARTS_DICT[part.id].patterns[k].src = part.detection_method
            /\ Found(PARTS_DICT[part.id].patterns[k].re, text)
    /\ ActionNear(Lower(text), action_type, PARTS_DICT[part.id].keywords[1])

\* C22: strategy 1 emits a part for an action type only if a pattern of the
\* part matches and an action keyword of that type occurs near the part's
\* primary keyword (before it, in the same sentence); what strategy 1
\* yields for "replaced" and all of parts_repaired are such parts.
C22_EmittedOnlyWithAction ==
    /\ pc = "parts_repaired" =>
            \A k \in 1..Len(parts_replaced) :
                EmittedWithAction(parts_replaced[k], preprocessed_text,
                                  "replaced")
    /\ pc \in {"comma_parts", "context_parts", "implied_parts", "dedupe"}
                \cup AfterDedupe =>
            \A k \in 1..Len(parts_repaired) :
                EmittedWithAction(parts_repaired[k], preprocessed_text,
                                  "repaired")

\* the battery pattern matches, "repaired" precedes it and no keyword of
\* "replaced" does: the battery is repaired and not replaced
C22_Witness ==
    /\ pc = "comma_parts"
    /\ transcript = "Repaired battery work fee 20"
    /\ parts_replaced = <<>>
    /\ Len(parts_repaired) = 1
    /\ parts_repaired[1].id = "battery"
    /\ ~ActionNear(preprocessed_text, "replaced", "battery")

\* the summary names every replaced part, with "(xN)" behind a quantity > 1
ListsReplaced(summary, replaced) ==
    /\ Contains(summary, "Replaced: ")
    /\ \A k \in 1..Len(replaced) :
            Contains(summary,
                IF replaced[k].quantity > 1
                THEN replaced[k].name \o " (x"
                        \o ToStr(replaced[k].quantity) \o ")"
                ELSE replaced[k].name)

\* the summary names every repaired part
ListsRepaired(summary, repaired) ==
    /\ Contains(summary, "Repaired: ")
    /\ \A k \in 1..Len(repaired) : Contains(summary, repaired[k].name)

\* the summary of a result, but for the "Total cost" clause
SummaryNamesTheWork(r) ==
    /\ Contains(r.work_summary, ServiceName(r.service_type))
    /\ r.parts_replaced # <<>> =>
            ListsReplaced(r.work_summary, r.parts_replaced)
    /\ r.parts_repaired # <<>> =>
            ListsRepaired(r.work_summary, r.parts_repaired)
    /\ (r.parts_replaced = <<>> /\ r.parts_repaired = <<>>) =>
            r.work_summary = ServiceName(r.service_type) \o " performed"

\* C23: the work summary has the service-type label, a "Replaced:" list if
\* parts were replaced ("(xN)" for a quantity > 1), a "Repaired:" list if
\* parts were repaired, and a "Total cost" clause whenever the total cost of
\* the result is > 0; with no part at all it is "<Service Type> performed".
\* (The clause is asked for only where a part was detected.)
C23_WorkSummary ==
    (Returned_ /\ ~IsEmptyTranscript(transcript)) =>
        /\ SummaryNamesTheWork(Result)
        /\ (/\ Result.total_cost > 0
            /\ (Result.parts_replaced # <<>> \/ Result.parts_repaired # <<>>))
                => Contains(Result.work_summary, "Total cost")

\* the same with the clause tied to the total extracted from the text
WorkSummaryOnExtractedTotal ==
    (Returned_ /\ ~IsEmptyTranscript(transcript)) =>
        /\ SummaryNamesTheWork(Result)
        /\ (Result.parts_replaced # <<>> \/ Result.parts_repaired # <<>>) =>
                (Contains(Result.work_summary, "Total cost")
                    <=> extract_total_cost(preprocessed_text) > 0)

\* the values of all the matches of one odometer pattern
ReadingsOfPattern(pattern, text_lower) ==
    {ToInt(FindAll(pattern, text_lower)[j]) :
        j \in 1..Len(FindAll(pattern, text_lower))}

\* the values within [1000, 500000] among the matches of all the patterns
ReadingsInRange(text_lower) ==
    {value \in UNION {ReadingsOfPattern(compiled_patterns.odometer[k].re,
                                        text_lower) :
                        k \in 1..Len(compiled_patterns.odometer)} :
        1000 <= value /\ value <= 500000}

\* the statements of the call after _extract_odometer
AfterOdometer ==
    {"date_info", "confidence", "summary", "estimate", "assemble", "returned"}

\* C24: the odometer reading is a match of the pattern cascade with a value
\* in [1000, 500000], and it is null only when no match of any pattern has a
\* value in that range: an out-of-range match earlier in the text does not
\* hide an in-range match.
C24_OdometerFirstInRange ==
    (pc \in AfterOdometer /\ ~IsEmptyTranscript(transcript)) =>
        /\ odometer # None =>
                odometer[1] \in ReadingsInRange(Lower(preprocessed_text))
        /\ odometer = None =>
                ReadingsInRange(Lower(preprocessed_text)) = {}

(***************************************************************************)
(* The order of the stages                                                 *)
(***************************************************************************)
\* the statements of process_transcript after the empty-transcript test, in
\* the order of the source; "estimate" is the fallback estimate
StatementOrder ==
    <<"preprocess", "service_type", "detect_replaced", "detect_repaired",
      "comma_parts", "context_parts", "implied_parts", "dedupe", "costs",
      "odometer", "date_info", "confidence", "summary", "estimate",
      "assemble">>

\* the statements run so far are the first Len(stages) of the source order:
\* each at most once, none after a later one
RunsInSourceOrder ==
    /\ Len(stages) <= Len(StatementOrder)
    /\ stages = SubSeq(StatementOrder, 1, Len(stages))

\* the cost values as the cost extraction stage leaves them
ExtractedCosts(text) ==
    [labor_cost |-> extract_cost(text, labor_keywords),
     parts_cost |-> extract_cost(text, parts_keywords),
     total_cost |-> extract_total_cost(text)]

\* the total of the result when it is assembled from the costs c
TotalOf(c) ==
    IF c.total_cost # 0 THEN c.total_cost ELSE c.labor_cost + c.parts_cost

\* C25: for a non-empty transcript the stages run once each in the order
\* preprocess, classify, detect parts, deduplicate, extract costs, odometer
\* and date, confidence, summary, assemble, and every cost value of the
\* assembled result is one that was computed before confidence scoring and
\* summary generation.
C25_StrictPipeline ==
    /\ RunsInSourceOrder
    /\ (Returned_ /\ ~IsEmptyTranscript(transcript)) =>
        /\ stages = StatementOrder
        /\ Result.labor_cost = ExtractedCosts(preprocessed_text).labor_cost
        /\ Result.parts_cost = ExtractedCosts(preprocessed_text).parts_cost
        /\ Result.total_cost = TotalOf(ExtractedCosts(preprocessed_text))

\* what holds of the code: the statements run once each in the order of the
\* source, and the labor and parts costs of the result are the extracted ones
PipelineInSourceOrder ==
    /\ RunsInSourceOrder
    /\ (Returned_ /\ ~IsEmptyTranscript(transcript)) =>
        /\ stages = StatementOrder
        /\ Result.labor_cost = ExtractedCosts(preprocessed_text).labor_cost
        /\ Result.parts_cost = ExtractedCosts(preprocessed_text).parts_cost

(***************************************************************************)
(* Service records (app/routers/services.py).  A handler is a function of  *)
(* the database: it yields the database after the request, with the        *)
(* response it sent.  A handler that raises commits nothing: the session   *)
(* of get_session is closed without a commit.  datetime.now() is the       *)
(* request's tick of the clock.                                            *)
(***************************************************************************)
\* class ServiceStatus
DRAFT == "draft"
APPROVED == "approved"
REJECTED == "rejected"
ServiceStatus ==
    {DRAFT, "pending_approval", APPROVED, REJECTED, "completed"}

\* the attributes class ServiceRecord declares
ServiceRecordFields ==
    {"id", "vehicle_id", "mechanic_id", "approver_id", "service_type",
     "description", "service_notes", "cost_estimate", "final_cost",
     "payment_status", "status", "service_date", "completion_date",
     "voice_transcript", "ai_parsed_data", "confidence_score", "created_at",
     "updated_at", "approved_at"}

\* db.get(Model, id)
Get(table, id) ==
    IF \E row \in table : row.id = id
    THEN Some(CHOOSE row \in table : row.id = id) ELSE None

Now(d) == d.now + 1

\* the response of the request (its status code), with the operation, the
\* role of the account that sent it and the record it was about
Respond(d, op, current_user, id, code) ==
    [d EXCEPT !.response =
        [op |-> op, role |-> current_user.role, id |-> id, code |-> code]]

\* db.add(service); db.commit() for a new row
Insert(d, row) ==
    [d EXCEPT !.servicerecord = @ \cup {[row EXCEPT !.id = d.servicerecord_id + 1]},
              !.servicerecord_id = @ + 1,
              !.now = Now(d)]

\* db.add(service); db.commit() for a row read in this request
Commit(d, row) ==
    [d EXCEPT !.servicerecord = {r \in @ : r.id # row.id} \cup {row},
              !.now = Now(d)]

\* db.add(vehicle)
WithVehicle(d, row) ==
    [d EXCEPT !.vehicle = {v \in @ : v.id # row.id} \cup {row}]

\* can_edit_service
can_edit_service(user, service_mechanic_id, service_status) ==
    \/ user.role = "admin"
    \/ /\ user.role = "mechanic"
       /\ service_mechanic_id = user.id
       /\ service_status = "draft"

\* a ServiceRecord as its constructor leaves it
NewServiceRecord(d) ==
    [id |-> NULL, vehicle_id |-> NULL, mechanic_id |-> NULL,
     approver_id |-> NULL, status |-> DRAFT, description |-> "",
     cost_estimate |-> 0, service_date |-> NULL, completion_date |-> NULL,
     voice_transcript |-> "", created_at |-> Now(d), updated_at |-> Now(d),
     approved_at |-> NULL]

\* POST /api/services/
create_service_record(d, service_data, current_user) ==
    LET vehicle == Get(d.vehicle, service_data.vehicle_id)
        mechanic_id ==
            IF service_data.mechanic_id = NULL /\ current_user.role = "mechanic"
            THEN current_user.id ELSE service_data.mechanic_id
        service ==
            [NewServiceRecord(d) EXCEPT
                !.vehicle_id = service_data.vehicle_id,
                !.description = service_data.description,
                !.mechanic_id = mechanic_id]
    IN  IF vehicle = None
        THEN Respond(d, "create", current_user, NULL, 404)
        ELSE IF vehicle[1].owner_id # current_user.id /\ current_user.role # "admin"
        THEN Respond(d, "create", current_user, NULL, 403)
        ELSE Respond(
                Insert(d,
                    IF current_user.role \in {"owner", "admin"}
                    THEN [service EXCEPT !.status = APPROVED,
                                         !.approver_id = current_user.id,
                                         !.approved_at = Now(d)]
                    ELSE [service EXCEPT !.status = DRAFT]),
                "create", current_user, d.servicerecord_id + 1, 201)

\* the transcripts of the voice requests: none, one that parses and one
\* whose parse raises
VoiceTranscripts == {"", "Replaced battery", "Replaced both front tires"}

\* voice_service.process_transcript(transcript) for these transcripts, as
\* the engine above ends on them (ParsedDataOfEngine)
parsed_data(t) ==
    IF t = "Replaced battery"
    THEN [raised |-> FALSE,
          work_summary |-> "Regular Service. Replaced: Battery",
          total_cost |-> 325000]
    ELSE [raised |-> TRUE, work_summary |-> "", total_cost |-> 0]

ParsedDataOfEngine ==
    (pc \in {"returned", "raised"} /\ transcript \in VoiceTranscripts \ {""}) =>
        /\ parsed_data(transcript).raised = (pc = "raised")
        /\ pc = "returned" =>
            /\ result[1].work_summary = parsed_data(transcript).work_summary
            /\ result[1].total_cost = parsed_data(transcript).total_cost

\* POST /api/services/voice-draft
create_voice_draft(d, voice_request, current_user) ==
    LET vehicle == Get(d.vehicle, voice_request.vehicle_id)
        parsed == parsed_data(voice_request.transcript)
    IN  IF vehicle = None
        THEN Respond(d, "voice-draft", current_user, NULL, 404)
        ELSE IF voice_request.transcript = ""
        THEN Respond(d, "voice-draft", current_user, NULL, 400)
        ELSE IF parsed.raised
        THEN Respond(d, "voice-draft", current_user, NULL, 500)
        ELSE Respond(
                Insert(d,
                    [NewServiceRecord(d) EXCEPT
                        !.vehicle_id = vehicle[1].id,
                        !.description = parsed.work_summary,
                        !.cost_estimate = parsed.total_cost,
                        !.service_date = Now(d),
                        !.voice_transcript = voice_request.transcript,
                        !.status = DRAFT,
                        !.mechanic_id = current_user.id]),
                "voice-draft", current_user, d.servicerecord_id + 1, 200)

\* "Update vehicle's last service info (if we have a service date)"
WithLastService(d, service) ==
    LET vehicle == Get(d.vehicle, service.vehicle_id)
    IN  IF vehicle # None /\ service.service_date # NULL
        THEN WithVehicle(d,
                [vehicle[1] EXCEPT
                    !.last_service_date = service.service_date,
                    !.next_service_date =
                        IF @ = NULL THEN service.service_date + 180 ELSE @])
        ELSE d

\* bug variant: a record of any status is approved
approve_service_draft_any_status(d, service_id, current_user) ==
    LET service == Get(d.servicerecord, service_id)
    IN  IF service = None
        THEN Respond(d, "approve", current_user, service_id, 404)
        ELSE Respond(
                Commit(WithLastService(d, service[1]),
                    [service[1] EXCEPT !.status = APPROVED,
                                       !.approver_id = current_user.id,
                                       !.approved_at = Now(d),
                                       !.updated_at = Now(d)]),
                "approve", current_user, service_id, 200)

\* PUT /api/services/{service_id}/approve
approve_service_draft(d, service_id, current_user) ==
    LET service == Get(d.servicerecord, service_id)
    IN  IF service = None
        THEN Respond(d, "approve", current_user, service_id, 404)
        ELSE IF service[1].status # DRAFT
        THEN Respond(d, "approve", current_user, service_id, 400)
        ELSE Respond(
                Commit(WithLastService(d, service[1]),
                    [service[1] EXCEPT !.status = APPROVED,
                                       !.approver_id = current_user.id,
                                       !.approved_at = Now(d),
                                       !.updated_at = Now(d)]),
                "approve", current_user, service_id, 200)

\* PUT /api/services/{service_id}/reject
reject_service_draft(d, service_id, reason, current_user) ==
    LET service == Get(d.servicerecord, service_id)
    IN  IF service = None
        THEN Respond(d, "reject", current_user, service_id, 404)
        ELSE IF service[1].status # DRAFT
        THEN Respond(d, "reject", current_user, service_id, 400)
        ELSE Respond(
                Commit(d,
                    [service[1] EXCEPT
                        !.status = REJECTED,
                        !.voice_transcript = @ \o "\n\nREJECTED: " \o reason,
                        !.updated_at = Now(d)]),
                "reject", current_user, service_id, 200)

\* DELETE /api/services/{service_id}
delete_service_record(d, service_id, current_user) ==
    LET service == Get(d.servicerecord, service_id)
    IN  IF service = None
        THEN Respond(d, "delete", current_user, service_id, 404)
        ELSE IF service[1].status # DRAFT
        THEN Respond(d, "delete", current_user, service_id, 400)
        ELSE IF ~can_edit_service(current_user, service[1].mechanic_id,
                                  service[1].status)
        THEN Respond(d, "delete", current_user, service_id, 403)
        ELSE Respond(
                [d EXCEPT !.servicerecord = @ \ {service[1]}],
                "delete", current_user, service_id, 200)

\* "can_edit = (...)" of update_service_record
MayUpdate(current_user, service, vehicle) ==
    \/ current_user.role = "admin"
    \/ current_user.role = "mechanic" /\ service.mechanic_id = current_user.id
    \/ /\ current_user.role = "owner"
       /\ vehicle.owner_id = current_user.id
       /\ service.status = DRAFT

\* a text field of a request body that is not set (or None)
Unset == ""

\* "for field, value in update_data.items(): if value is not None: setattr"
WithUpdate(service, service_update) ==
    [service EXCEPT
        !.status = IF service_update.status # Unset
                   THEN service_update.status ELSE @,
        !.description = IF service_update.description # Unset
                        THEN service_update.description ELSE @]

\* PUT /api/services/{service_id}
update_service_record(d, service_id, service_update, current_user) ==
    LET service == Get(d.servicerecord, service_id)
        vehicle == Get(d.vehicle, service[1].vehicle_id)
    IN  IF service = None
        THEN Respond(d, "update", current_user, service_id, 404)
        ELSE IF vehicle = None
        THEN Respond(d, "update", current_user, service_id, 404)
        ELSE IF ~MayUpdate(current_user, service[1], vehicle[1])
        THEN Respond(d, "update", current_user, service_id, 403)
        ELSE Respond(
                Commit(d,
                    [WithUpdate(service[1], service_update) EXCEPT
                        !.updated_at = Now(d)]),
                "update", current_user, service_id, 200)

\* PUT /api/services/{service_id}/draft-update; the assignment of
\* service.odometer_reading raises (the class declares no such field) and
\* the request ends with nothing committed
update_draft_service(d, service_id, draft_update, current_user) ==
    LET service == Get(d.servicerecord, service_id)
    IN  IF service = None
        THEN Respond(d, "draft-update", current_user, service_id, 404)
        ELSE IF service[1].status # DRAFT
        THEN Respond(d, "draft-update", current_user, service_id, 400)
        ELSE IF ~can_edit_service(current_user, service[1].mechanic_id,
                                  service[1].status)
        THEN Respond(d, "draft-update", current_user, service_id, 403)
        ELSE IF /\ draft_update.odometer_reading # NULL
                /\ "odometer_reading" \notin ServiceRecordFields
        THEN Respond(d, "draft-update", current_user, service_id, 500)
        ELSE Respond(
                Commit(d,
                    [service[1] EXCEPT
                        !.description = IF draft_update.description # Unset
                                        THEN draft_update.description ELSE @,
                        !.updated_at = Now(d)]),
                "draft-update", current_user, service_id, 200)

\* PUT /api/services/{service_id}/submit-draft; "if service.odometer_reading"
\* raises AttributeError (the class declares no such field) before anything
\* is assigned, and the request ends with nothing committed
submit_draft_service(d, service_id, current_user) ==
    LET service == Get(d.servicerecord, service_id)
    IN  IF service = None
        THEN Respond(d, "submit-draft", current_user, service_id, 404)
        ELSE IF service[1].status # DRAFT
        THEN Respond(d, "submit-draft", current_user, service_id, 400)
        ELSE IF ~can_edit_service(current_user, service[1].mechanic_id,
                                  service[1].status)
        THEN Respond(d, "submit-draft", current_user, service_id, 403)
        ELSE IF "odometer_reading" \notin ServiceRecordFields
        THEN Respond(d, "submit-draft", current_user, service_id, 500)
        ELSE Respond(
                Commit(d,
                    [service[1] EXCEPT !.status = APPROVED,
                                       !.approver_id = current_user.id,
                                       !.approved_at = Now(d),
                                       !.completion_date = Now(d),
                                       !.updated_at = Now(d)]),
                "submit-draft", current_user, service_id, 200)

\* the requests sent: at most MaxRecords records are created and the clock
\* is read at most MaxClock times
MaxRecords == 1
MaxClock == 3
ServiceIds == 1..MaxRecords
Admins == {u \in USERS : u.role = "admin"}
Mechanics == {u \in USERS : u.role = "mechanic"}
ServiceCreates ==
    [vehicle_id : {1, 2}, mechanic_id : {NULL, 2}, description : {"entered"}]
VoiceRequests == [vehicle_id : {1, 2}, transcript : VoiceTranscripts]
ServiceUpdates ==
    [status : ServiceStatus \cup {Unset}, description : {Unset, "edited"}]
DraftUpdates ==
    [description : {Unset, "edited"}, odometer_reading : {NULL, 25000}]

parser == <<pc, transcript, preprocessed_text, service_type, parts_replaced,
            parts_repaired, labor_cost, parts_cost, total_cost, odometer,
            date_info, confidence, work_summary, result, stages, other>>

CreateServiceRecord ==
    /\ db.now < MaxClock
    /\ db.servicerecord_id < MaxRecords
    /\ \E service_data \in ServiceCreates, current_user \in USERS :
            db' = create_service_record(db, service_data, current_user)
    /\ UNCHANGED parser

\* current_user: User = Depends(get_current_mechanic)
CreateVoiceDraft ==
    /\ db.now < MaxClock
    /\ db.servicerecord_id < MaxRecords
    /\ \E voice_request \in VoiceRequests, current_user \in Mechanics :
            db' = create_voice_draft(db, voice_request, current_user)
    /\ UNCHANGED parser

\* current_user: User = Depends(get_current_admin)
ApproveServiceDraft ==
    /\ db.now < MaxClock
    /\ \E service_id \in ServiceIds, current_user \in Admins :
            db' = approve_service_draft(db, service_id, current_user)
    /\ UNCHANGED parser

\* current_user: User = Depends(get_current_admin)
RejectServiceDraft ==
    /\ db.now < MaxClock
    /\ \E service_id \in ServiceIds, current_user \in Admins :
            db' = reject_service_draft(db, service_id, "wrong", current_user)
    /\ UNCHANGED parser

DeleteServiceRecord ==
    /\ db.now < MaxClock
    /\ \E service_id \in ServiceIds, current_user \in USERS :
            db' = delete_service_record(db, service_id, current_user)
    /\ UNCHANGED parser

UpdateServiceRecord ==
    /\ db.now < MaxClock
    /\ \E service_id \in ServiceIds, service_update \in ServiceUpdates,
          current_user \in USERS :
            db' = update_service_record(db, service_id, service_update,
                                        current_user)
    /\ UNCHANGED parser

UpdateDraftService ==
    /\ db.now < MaxClock
    /\ \E service_id \in ServiceIds, draft_update \in DraftUpdates,
          current_user \in USERS :
            db' = update_draft_service(db, service_id, draft_update,
                                       current_user)
    /\ UNCHANGED parser

SubmitDraftService ==
    /\ db.now < MaxClock
    /\ \E service_id \in ServiceIds, current_user \in USERS :
            db' = submit_draft_service(db, service_id, current_user)
    /\ UNCHANGED parser

NextRecords ==
    \/ CreateServiceRecord
    \/ CreateVoiceDraft
    \/ ApproveServiceDraft
    \/ RejectServiceDraft
    \/ DeleteServiceRecord
    \/ UpdateServiceRecord
    \/ UpdateDraftService
    \/ SubmitDraftService

SpecRecords == Init /\ [][NextRecords]_vars

(***************************************************************************)
(* Properties of the service-record requests                               *)
(***************************************************************************)
\* the operations that are meant for drafts
DraftOperations ==
    {"approve", "reject", "delete", "draft-update", "submit-draft"}

\* the step is a request (every request leaves its response in db) whose
\* response is the one db holds after it
Answered == db' # db

C27_StatusFinal ==
    [][ \A service \in db.servicerecord :
            (/\ Answered
             /\ db'.response.role \in {"mechanic", "owner"}
             /\ service.status \in {APPROVED, REJECTED}) =>
                \E after \in db'.servicerecord :
                    after.id = service.id /\ after.status = service.status
      ]_vars

\* what holds of the code: a request of an owner leaves the status of a
\* record that has left DRAFT as it is
StatusFinalForOwners ==
    [][ \A service \in db.servicerecord :
            (/\ Answered
             /\ db'.response.role = "owner"
             /\ service.status \in {APPROVED, REJECTED}) =>
                \E after \in db'.servicerecord :
                    after.id = service.id /\ after.status = service.status
      ]_vars

(***************************************************************************)
(* Vehicle access requests (app/routers/vehicle_access.py).  The server    *)
(* processes share the database and nothing else.  request_vehicle_access  *)
(* reads the table (the existing-request query) and writes it (the insert  *)
(* and its commit) in two statements: a request served by another process  *)
(* may commit between them.  No constraint of the table                    *)
(* (app/models/vehicle_access.py) rejects the second row of a pair.        *)
(***************************************************************************)
\* class AccessStatus (APPROVED and REJECTED are the strings of ServiceStatus)
PENDING == "pending"
AccessStatus == {PENDING, APPROVED, REJECTED}

\* the rows the existing-request query of request_vehicle_access selects
ExistingRequests(d, mechanic_id, vehicle_id) ==
    {r \in d.vehicle_access_request :
        /\ r.mechanic_id = mechanic_id
        /\ r.vehicle_id = vehicle_id
        /\ r.status \in {PENDING, APPROVED}}

\* db.add(access_request); db.commit()
CommitAccess(d, row) ==
    [d EXCEPT !.vehicle_access_request = {r \in @ : r.id # row.id} \cup {row},
              !.now = Now(d)]

\* POST /api/vehicle-access/request up to the existing-request query: the
\* process w answers with an error, or goes on to the insert
request_vehicle_access_check(d, w, vehicle_id, current_user) ==
    LET vehicle == Get(d.vehicle, vehicle_id)
    IN  IF current_user.role # "mechanic"
        THEN Respond(d, "request", current_user, NULL, 403)
        ELSE IF vehicle = None
        THEN Respond(d, "request", current_user, NULL, 404)
        ELSE IF vehicle[1].owner_id = current_user.id
        THEN Respond(d, "request", current_user, NULL, 400)
        ELSE IF ExistingRequests(d, current_user.id, vehicle_id) # {}
        THEN Respond(d, "request", current_user, NULL, 400)
        ELSE [d EXCEPT !.calls[w] =
                [pc |-> "insert", current_user |-> current_user.id,
                 vehicle_id |-> vehicle_id, owner_id |-> vehicle[1].owner_id]]

\* "Create new request": the insert, its commit and the response
request_vehicle_access_insert(d, w) ==
    [d EXCEPT
        !.vehicle_access_request = @ \cup
            {[id |-> d.vehicle_access_request_id + 1,
              mechanic_id |-> d.calls[w].current_user,
              vehicle_id |-> d.calls[w].vehicle_id,
              owner_id |-> d.calls[w].owner_id,
              status |-> PENDING,
              created_at |-> Now(d), updated_at |-> Now(d),
              approved_at |-> NULL]},
        !.vehicle_access_request_id = @ + 1,
        !.now = Now(d),
        !.calls[w] = NoCall,
        !.response = [op |-> "request", role |-> "mechanic",
                      id |-> d.vehicle_access_request_id + 1, code |-> 201]]

\* PUT /api/vehicle-access/requests/{request_id}/approve
approve_access_request(d, request_id, current_user) ==
    LET access_request == Get(d.vehicle_access_request, request_id)
    IN  IF access_request = None
        THEN Respond(d, "approve-access", current_user, request_id, 404)
        ELSE IF access_request[1].owner_id # current_user.id
        THEN Respond(d, "approve-access", current_user, request_id, 403)
        ELSE IF access_request[1].status # PENDING
        THEN Respond(d, "approve-access", current_user, request_id, 400)
        ELSE Respond(
                CommitAccess(d,
                    [access_request[1] EXCEPT !.status = APPROVED,
                                              !.approved_at = Now(d),
                                              !.updated_at = Now(d)]),
                "approve-access", current_user, request_id, 200)

\* PUT /api/vehicle-access/requests/{request_id}/reject
reject_access_request(d, request_id, current_user) ==
    LET access_request == Get(d.vehicle_access_request, request_id)
    IN  IF access_request = None
        THEN Respond(d, "reject-access", current_user, request_id, 404)
        ELSE IF access_request[1].owner_id # current_user.id
        THEN Respond(d, "reject-access", current_user, request_id, 403)
        ELSE IF access_request[1].status # PENDING
        THEN Respond(d, "reject-access", current_user, request_id, 400)
        ELSE Respond(
                CommitAccess(d,
                    [access_request[1] EXCEPT !.status = REJECTED,
                                              !.updated_at = Now(d)]),
                "reject-access", current_user, request_id, 200)

\* DELETE /api/vehicle-access/vehicles/{vehicle_id}/revoke/{mechanic_id};
\* .first() takes any of the approved rows of the pair
revoke_vehicle_access(d, vehicle_id, mechanic_id, current_user) ==
    LET vehicle == Get(d.vehicle, vehicle_id)
        approved == {r \in d.vehicle_access_request :
                        /\ r.vehicle_id = vehicle_id
                        /\ r.mechanic_id = mechanic_id
                        /\ r.status = APPROVED}
    IN  IF vehicle = None
        THEN {Respond(d, "revoke", current_user, NULL, 404)}
        ELSE IF vehicle[1].owner_id # current_user.id
        THEN {Respond(d, "revoke", current_user, NULL, 403)}
        ELSE IF approved = {}
        THEN {Respond(d, "revoke", current_user, NULL, 404)}
        ELSE {Respond(
                CommitAccess(d, [access_request EXCEPT
                                    !.status = REJECTED,
                                    !.updated_at = Now(d)]),
                "revoke", current_user, access_request.id, 200) :
              access_request \in approved}

Workers == DOMAIN db.calls
AccessIds == 1..MaxClock
VehicleIds == {1, 2}

RequestVehicleAccessCheck ==
    /\ db.now < MaxClock
    /\ \E w \in Workers, vehicle_id \in VehicleIds, current_user \in USERS :
        /\ db.calls[w] = NoCall
        /\ db' = request_vehicle_access_check(db, w, vehicle_id, current_user)
    /\ UNCHANGED parser

RequestVehicleAccessInsert ==
    /\ db.now < MaxClock
    /\ \E w \in Workers :
        /\ db.calls[w].pc = "insert"
        /\ db' = request_vehicle_access_insert(db, w)
    /\ UNCHANGED parser

ApproveAccessRequest ==
    /\ db.now < MaxClock
    /\ \E request_id \in AccessIds, current_user \in USERS :
            db' = approve_access_request(db, request_id, current_user)
    /\ UNCHANGED parser

RejectAccessRequest ==
    /\ db.now < MaxClock
    /\ \E request_id \in AccessIds, current_user \in USERS :
            db' = reject_access_request(db, request_id, current_user)
    /\ UNCHANGED parser

RevokeVehicleAccess ==
    /\ db.now < MaxClock
    /\ \E vehicle_id \in VehicleIds, mechanic \in Mechanics,
          current_user \in USERS :
            db' \in revoke_vehicle_access(db, vehicle_id, mechanic.id,
                                          current_user)
    /\ UNCHANGED parser

NextAccess ==
    \/ RequestVehicleAccessCheck
    \/ RequestVehicleAccessInsert
    \/ ApproveAccessRequest
    \/ RejectAccessRequest
    \/ RevokeVehicleAccess

SpecAccess == Init /\ [][NextAccess]_vars

\* the requests of a pair that are pending or approved
ActiveRequests(mechanic_id, vehicle_id) ==
    ExistingRequests(db, mechanic_id, vehicle_id)

\* C28: for every (mechanic, vehicle) pair there is at any time at most one
\* access request that is PENDING or APPROVED, also when two
\* request_vehicle_access calls for the pair interleave between the
\* existing-request query and the insert: a request is created only when
\* all earlier ones of the pair are REJECTED.
C28_OneActiveRequestPerPair ==
    \A mechanic \in Mechanics, vehicle_id \in VehicleIds :
        Cardinality(ActiveRequests(mechanic.id, vehicle_id)) <= 1

\* what holds of the code: a request that passes the existing-request query
\* saw no pending or approved request of its pair
QuerySawNoActiveRequest ==
    [][ \A w \in Workers :
            (db.calls[w] = NoCall /\ db'.calls[w].pc = "insert") =>
                ExistingRequests(db, db'.calls[w].current_user,
                                 db'.calls[w].vehicle_id) = {}
      ]_vars

(***************************************************************************)
(* Quantities and the part they belong to                                  *)
(***************************************************************************)
\* what the text says of the part itself: the number that specific_patterns
\* finds next to part_keyword, else the default of the part's type
OwnQuantity(text_lower, part_keyword) ==
    OrElse(SpecificQuantityLoop(text_lower, part_keyword),
           Returned(DefaultQuantity(text_lower, part_keyword)))

\* every part of the list has the quantity of its own first keyword, the one
\* _extract_parts_with_improved_detection hands to _extract_quantity
HaveOwnQuantities(parts, text_lower) ==
    \A k \in 1..Len(parts) :
        LET own == OwnQuantity(text_lower,
                               PARTS_DICT[parts[k].id].keywords[1])
        IN  ~own.raised => parts[k].quantity = own.value

\* C29: the quantity of a detected part depends only on a number attached to
\* that part's own keyword; a count that belongs to another part ("4 tires",
\* "N pcs", "N sets") is never given to a different part.
C29_QuantityOfOwnKeyword ==
    pc = "comma_parts" =>
        /\ HaveOwnQuantities(parts_replaced, Lower(preprocessed_text))
        /\ HaveOwnQuantities(parts_repaired, Lower(preprocessed_text))

(***************************************************************************)
(* Odometer numbers and cost candidates                                    *)
(***************************************************************************)
\* all_amounts of _extract_total_cost, as a set: the amounts the cost patterns
\* collect from the text and the range test keeps
TotalCostCandidates(text) ==
    LET text_lower == Lower(text)
        found == Concat([k \in 1..Len(compiled_patterns.cost) |->
                            FindAll(compiled_patterns.cost[k].re, text_lower)])
    IN  {amount \in {ToCents(found[k]) : k \in 1..Len(found)} :
            ReasonableAmount(amount)}

\* the numbers the odometer patterns read in the text, in hundredths
OdometerNumbers(text) ==
    {100 * value :
        value \in UNION {ReadingsOfPattern(compiled_patterns.odometer[k].re,
                                           Lower(text)) :
                            k \in 1..Len(compiled_patterns.odometer)}}

\* C30: a number of the text that is an odometer reading is never collected
\* as a candidate for the total cost, so the total cost is never an odometer
\* number: with "for 1500 rupees. Odometer 25000 km" it is the 1500.
C30_OdometerNeverACost ==
    pc \in AfterCosts =>
        /\ TotalCostCandidates(preprocessed_text)
                \cap OdometerNumbers(preprocessed_text) = {}
        /\ total_cost \notin OdometerNumbers(preprocessed_text)

====
